---- MODULE Spec2Model ----
(***************************************************************************)
(* Signal generation and trade lifecycle engine of TradeXAI_TS.            *)
(*                                                                         *)
(* Prices are fixed-point integers: one unit is 1/1000 of the entry price  *)
(* of the smallest instrument, so that the percentage levels of the        *)
(* synthesizer (0.985, 1.01, ...) are exact.  An optional field of a       *)
(* TypeScript record (`x?: T`) is a sequence of length 0 (absent or        *)
(* undefined) or 1 (present).                                              *)
(***************************************************************************)
EXTENDS Integers, Sequences, FiniteSets, TLC

\* ------------------------------------------------------------------------
\* Bounds of the model
\* ------------------------------------------------------------------------
MaxClock == 1
MaxCallbacks == 2
MaxFeeds == 2
MaxRefresh == 1

\* ------------------------------------------------------------------------
\* Optional values and JavaScript operators on them
\* ------------------------------------------------------------------------
None == <<>>
Some(v) == <<v>>

\* `x ?? d`
Nullish(opt, d) == IF opt = None THEN d ELSE opt[1]

\* truthiness of an optional boolean: `if (x.resolved)`
TruthyBool(opt) == opt = Some(TRUE)

\* truthiness of an optional number: `signal.entryPrice && ...`
TruthyNum(opt) == opt # None /\ opt[1] # 0

\* `s || ""` on an optional string
OrEmpty(opt) == IF opt = None THEN "" ELSE opt[1]

\* new Date().toISOString(): the timestamp rendered as a string value
ToISOString(t) == [iso |-> t]

\* ------------------------------------------------------------------------
\* Enumerations
\* ------------------------------------------------------------------------
Directions == {"BUY", "SELL", "HOLD"}
ACTIVE == "ACTIVE"
TARGET_HIT == "TARGET"
STOP_HIT == "STOP"

\* ------------------------------------------------------------------------
\* Signal synthesizer: risk levels and the emitted record
\* ------------------------------------------------------------------------
HoldConfidence == 50
BaseConfidence == 70
HoldExplanation == "Neutral: waiting for confirmation."
BuyExplanation == "Price above SMA20 & EMA50 with bullish momentum."
SellExplanation == "Price below SMA20 & EMA50 with bearish momentum."

Stoploss_AtEntry(signal, current) ==
    IF signal = "BUY" THEN current
    ELSE IF signal = "SELL" THEN (current * 1015) \div 1000
    ELSE current

Stoploss(signal, current) ==
    IF signal = "BUY" THEN (current * 985) \div 1000
    ELSE IF signal = "SELL" THEN (current * 1015) \div 1000
    ELSE current

Targets_SellRising(signal, current) ==
    IF signal = "BUY"
      THEN << (current * 1010) \div 1000, (current * 1020) \div 1000, (current * 1030) \div 1000 >>
    ELSE IF signal = "SELL"
      THEN << (current * 970) \div 1000, (current * 980) \div 1000, (current * 990) \div 1000 >>
    ELSE << current >>

Targets(signal, current) ==
    IF signal = "BUY"
      THEN << (current * 1010) \div 1000, (current * 1020) \div 1000, (current * 1030) \div 1000 >>
    ELSE IF signal = "SELL"
      THEN << (current * 990) \div 1000, (current * 980) \div 1000, (current * 970) \div 1000 >>
    ELSE << current >>

\* the record returned by generateSMCSignal for a decided direction
EmitSignal(signal, confidence, explanation, current) ==
    [ signal      |-> signal,
      stoploss    |-> Stoploss(signal, current),
      targets     |-> Targets(signal, current),
      confidence  |-> confidence,
      explanation |-> explanation,
      hitStatus   |-> ACTIVE,
      entryPrice  |-> Some(current),
      finalPrice  |-> None,
      resolved    |-> Some(FALSE),
      resolvedAt  |-> None ]

\* ------------------------------------------------------------------------
\* Numbers of the indicators: exact fractions num / den with den > 0.
\* Prices and volumes are integers (a price in units of a thousandth).
\* ------------------------------------------------------------------------
Ratio(n, d) == [ num |-> n, den |-> d ]
Whole(n) == Ratio(n, 1)
Less(x, y) == x.num * y.den < y.num * x.den

RECURSIVE GCD(_, _)
GCD(a, b) == IF b = 0 THEN a ELSE GCD(b, a % b)

Reduced(n, d) ==
    LET g == GCD(IF n < 0 THEN -n ELSE n, d)
    IN  Ratio(n \div g, d \div g)

\* ------------------------------------------------------------------------
\* JavaScript arrays: arr[i] and arr.slice(from, to), with indices from 0
\* ------------------------------------------------------------------------
\* arr[i]: undefined (None) outside the array
At(arr, i) == IF i \in 0..(Len(arr) - 1) THEN Some(arr[i + 1]) ELSE None

\* a relative index of slice as an offset into an array of n elements
Offset(i, n) == IF i < 0 THEN (IF n + i < 0 THEN 0 ELSE n + i)
                ELSE IF i > n THEN n ELSE i

Slice(arr, from, to) == SubSeq(arr, Offset(from, Len(arr)) + 1, Offset(to, Len(arr)))
SliceFrom(arr, from) == Slice(arr, from, Len(arr))

RECURSIVE SumOf(_)
SumOf(arr) == IF arr = << >> THEN 0 ELSE Head(arr) + SumOf(Tail(arr))

\* Math.max(...arr) and Math.min(...arr) of a non-empty array
MaxOf(arr) == CHOOSE x \in { arr[i] : i \in 1..Len(arr) } : \A i \in 1..Len(arr) : arr[i] <= x
MinOf(arr) == CHOOSE x \in { arr[i] : i \in 1..Len(arr) } : \A i \in 1..Len(arr) : arr[i] >= x

\* ------------------------------------------------------------------------
\* Indicator library (xaiLogic)
\* ------------------------------------------------------------------------
calculateSMA_FirstElement(data, period) ==
    IF Len(data) < period THEN Whole(Nullish(At(data, 0), 0))
    ELSE Ratio(SumOf(SliceFrom(data, -period)), period)

calculateSMA(data, period) ==
    IF Len(data) < period THEN Whole(Nullish(At(data, Len(data) - 1), 0))
    ELSE Ratio(SumOf(SliceFrom(data, -period)), period)

\* ema after the element of index i (from 0): data[i] * k + ema * (1 - k), k = 2 / (period + 1)
RECURSIVE EmaUpTo(_, _, _)
EmaUpTo(data, period, i) ==
    IF i = 0 THEN Whole(data[1])
    ELSE LET ema == EmaUpTo(data, period, i - 1)
         IN  Reduced(2 * data[i + 1] * ema.den + (period - 1) * ema.num,
                     (period + 1) * ema.den)

calculateEMA(data, period) ==
    IF Len(data) = 0 THEN Whole(0)
    ELSE EmaUpTo(data, period, Len(data) - 1)

\* 100 - 100 / (1 + avgGain / avgLoss) is 100 * gains / (gains + losses)
calculateRSI(data, period) ==
    IF Len(data) < period + 1 THEN Whole(50)
    ELSE LET first == Len(data) - period
             diff == [ j \in 1..period |-> data[first + j] - data[first + j - 1] ]
             gains == SumOf([ j \in 1..period |-> IF diff[j] > 0 THEN diff[j] ELSE 0 ])
             losses == SumOf([ j \in 1..period |-> IF diff[j] > 0 THEN 0 ELSE -diff[j] ])
         IN  IF losses = 0 THEN Whole(100)
             ELSE Reduced(100 * gains, gains + losses)

\* ------------------------------------------------------------------------
\* Structural pattern detectors (xaiLogic)
\*
\* A detector's ...Reads is the list of the elements it reads by index, each
\* undefined (None) when the index is outside the array; what it reads through
\* slice is inside the array by the definition of slice.  A comparison with an
\* undefined operand is false.  The thresholds are compared exactly:
\* x > y * 1.01 as 100 * x > 101 * y.
\* ------------------------------------------------------------------------
BULLISH == "BULLISH"
BEARISH == "BEARISH"
NoVerdict == "null"

detectFairValueGapReads(highs, lows) ==
    LET i == Len(highs) - 3
    IN  << At(highs, i), At(lows, i + 2) >>

\* Math.abs(nextLow - prevHigh) / prevHigh > 0.005
detectFairValueGap(highs, lows) ==
    IF Len(highs) < 3 \/ Len(lows) < 3 THEN FALSE
    ELSE LET reads == detectFairValueGapReads(highs, lows)
             prevHigh == reads[1]
             nextLow == reads[2]
         IN  IF prevHigh = None \/ nextLow = None THEN FALSE
             ELSE LET gap == IF nextLow[1] >= prevHigh[1] THEN nextLow[1] - prevHigh[1]
                             ELSE prevHigh[1] - nextLow[1]
                  IN  IF prevHigh[1] > 0 THEN 200 * gap > prevHigh[1]
                      ELSE prevHigh[1] = 0 /\ gap # 0

detectOrderBlockReads(prices) == << At(prices, Len(prices) - 1) >>

detectOrderBlock(prices) ==
    IF Len(prices) < 5 THEN NoVerdict
    ELSE LET total == SumOf(SliceFrom(prices, -5))
             recent == detectOrderBlockReads(prices)[1][1]
         IN  IF 500 * recent > 101 * total THEN BULLISH
             ELSE IF 500 * recent < 99 * total THEN BEARISH
             ELSE NoVerdict

detectVolumeSurgeReads(volumes) == << At(volumes, Len(volumes) - 1) >>

detectVolumeSurge_NotStrict(volumes) ==
    IF Len(volumes) < 10 THEN FALSE
    ELSE LET total == SumOf(SliceFrom(volumes, -10))
             latest == detectVolumeSurgeReads(volumes)[1][1]
         IN  20 * latest >= 3 * total

\* latest > avgVol * 1.5, avgVol the tenth of the sum of the last 10 volumes
detectVolumeSurge(volumes) ==
    IF Len(volumes) < 10 THEN FALSE
    ELSE LET total == SumOf(SliceFrom(volumes, -10))
             latest == detectVolumeSurgeReads(volumes)[1][1]
         IN  20 * latest > 3 * total

detectLiquiditySweepReads(highs, lows) ==
    << At(highs, Len(highs) - 2), At(lows, Len(lows) - 2) >>

detectLiquiditySweep(highs, lows, current) ==
    IF Len(highs) < 5 \/ Len(lows) < 5 THEN NoVerdict
    ELSE LET recentHigh == MaxOf(Slice(highs, -6, -1))
             recentLow == MinOf(Slice(lows, -6, -1))
             reads == detectLiquiditySweepReads(highs, lows)
         IN  IF current > recentHigh /\ current < reads[1][1] THEN BEARISH
             ELSE IF current < recentLow /\ current > reads[2][1] THEN BULLISH
             ELSE NoVerdict

detectMitigationBlockReads(prices) == << At(prices, Len(prices) - 1) >>

detectMitigationBlock(prices) ==
    IF Len(prices) < 6 THEN NoVerdict
    ELSE LET last == detectMitigationBlockReads(prices)[1][1]
             prevLow == MinOf(Slice(prices, -6, -2))
             prevHigh == MaxOf(Slice(prices, -6, -2))
         IN  IF 100 * last > 102 * prevLow /\ last < prevHigh THEN BULLISH
             ELSE IF 100 * last < 98 * prevHigh /\ last > prevLow THEN BEARISH
             ELSE NoVerdict

\* the breaker block reads through slice alone
detectBreakerBlockReads(prices) == << >>

detectBreakerBlock(prices) ==
    IF Len(prices) < 10 THEN NoVerdict
    ELSE LET prev5 == Slice(prices, -10, -5)
             last5 == SliceFrom(prices, -5)
             prevHigh == MaxOf(prev5)
             prevLow == MinOf(prev5)
             currHigh == MaxOf(last5)
             currLow == MinOf(last5)
         IN  IF currHigh > prevHigh /\ currLow > prevLow THEN BULLISH
             ELSE IF currLow < prevLow /\ currHigh < prevHigh THEN BEARISH
             ELSE NoVerdict

\* prevHigh, currHigh, prevLow, currLow of detectBOS;
\* secondLastHigh, lastHigh, secondLastLow, lastLow of detectCHoCH
StructureReads(highs, lows) ==
    << At(highs, Len(highs) - 3), At(highs, Len(highs) - 1),
       At(lows, Len(lows) - 3), At(lows, Len(lows) - 1) >>

detectBOSReads(highs, lows) == StructureReads(highs, lows)

detectBOS(highs, lows) ==
    IF Len(highs) < 6 \/ Len(lows) < 6 THEN NoVerdict
    ELSE LET reads == detectBOSReads(highs, lows)
         IN  IF 1000 * reads[2][1] > 1002 * reads[1][1] THEN BULLISH
             ELSE IF 1000 * reads[4][1] < 998 * reads[3][1] THEN BEARISH
             ELSE NoVerdict

detectCHoCHReads(highs, lows) == StructureReads(highs, lows)

detectCHoCH_HighFirst(highs, lows) ==
    IF Len(highs) < 8 \/ Len(lows) < 8 THEN NoVerdict
    ELSE LET reads == detectCHoCHReads(highs, lows)
             brokeHigh == 1000 * reads[2][1] > 1001 * reads[1][1]
             brokeLow == 1000 * reads[4][1] < 999 * reads[3][1]
         IN  IF brokeHigh THEN BULLISH
             ELSE IF brokeLow THEN BEARISH
             ELSE NoVerdict

detectCHoCH(highs, lows) ==
    IF Len(highs) < 8 \/ Len(lows) < 8 THEN NoVerdict
    ELSE LET reads == detectCHoCHReads(highs, lows)
             brokeHigh == 1000 * reads[2][1] > 1001 * reads[1][1]
             brokeLow == 1000 * reads[4][1] < 999 * reads[3][1]
         IN  IF brokeHigh /\ ~brokeLow THEN BULLISH
             ELSE IF brokeLow /\ ~brokeHigh THEN BEARISH
             ELSE NoVerdict

\* ------------------------------------------------------------------------
\* Signal synthesizer (xaiLogic): generateSMCSignal
\* ------------------------------------------------------------------------
\* the verdicts of the eight detectors on a StockData
Detect(stock) ==
    [ hasFVG         |-> detectFairValueGap(stock.highs, stock.lows),
      orderBlock     |-> detectOrderBlock(stock.prices),
      volumeSurge    |-> detectVolumeSurge(stock.volumes),
      liquiditySweep |-> detectLiquiditySweep(stock.highs, stock.lows, stock.current),
      bos            |-> detectBOS(stock.highs, stock.lows),
      choch          |-> detectCHoCH(stock.highs, stock.lows),
      mitigation     |-> detectMitigationBlock(stock.prices),
      breaker        |-> detectBreakerBlock(stock.prices) ]

\* change > 0 and change < 0 for change = ((current - prevClose) / prevClose) * 100;
\* x / 0 is Infinity, -Infinity or NaN
ChangeAbove(current, prevClose) ==
    IF prevClose > 0 THEN current > prevClose
    ELSE IF prevClose < 0 THEN current < prevClose
    ELSE current > 0

ChangeBelow(current, prevClose) ==
    IF prevClose > 0 THEN current < prevClose
    ELSE IF prevClose < 0 THEN current > prevClose
    ELSE current < 0

BuyGate(stock) ==
    /\ Less(calculateSMA(stock.prices, 20), Whole(stock.current))
    /\ Less(calculateEMA(stock.prices, 50), Whole(stock.current))
    /\ Less(calculateRSI(stock.prices, 14), Whole(70))
    /\ ChangeAbove(stock.current, stock.previousClose)

SellGate_MomentumOnly(stock) ==
    /\ Less(Whole(30), calculateRSI(stock.prices, 14))

SellGate(stock) ==
    /\ Less(Whole(stock.current), calculateSMA(stock.prices, 20))
    /\ Less(Whole(stock.current), calculateEMA(stock.prices, 50))
    /\ Less(Whole(30), calculateRSI(stock.prices, 14))
    /\ ChangeBelow(stock.current, stock.previousClose)

\* `if (cond) { confidence += weight; explanation += text; }`
Bonus(cond, weight, text) == [ cond |-> cond, weight |-> weight, text |-> text ]

BuyBonuses_LightOrderBlock(v) ==
    << Bonus(v.bos = BULLISH, 10, " BOS confirmed."),
       Bonus(v.choch = BULLISH, 10, " CHoCH reversal."),
       Bonus(v.orderBlock = BULLISH, 3, " Bullish OB."),
       Bonus(v.mitigation = BULLISH, 5, " Mitigation Block respected."),
       Bonus(v.breaker = BULLISH, 5, " Breaker Block confirmed."),
       Bonus(v.hasFVG, 3, " FVG spotted."),
       Bonus(v.volumeSurge, 3, " Strong volume."),
       Bonus(v.liquiditySweep = BULLISH, 4, " Bullish liquidity sweep.") >>

BuyBonuses(v) ==
    << Bonus(v.bos = BULLISH, 10, " BOS confirmed."),
       Bonus(v.choch = BULLISH, 10, " CHoCH reversal."),
       Bonus(v.orderBlock = BULLISH, 5, " Bullish OB."),
       Bonus(v.mitigation = BULLISH, 5, " Mitigation Block respected."),
       Bonus(v.breaker = BULLISH, 5, " Breaker Block confirmed."),
       Bonus(v.hasFVG, 3, " FVG spotted."),
       Bonus(v.volumeSurge, 3, " Strong volume."),
       Bonus(v.liquiditySweep = BULLISH, 4, " Bullish liquidity sweep.") >>

SellBonuses(v) ==
    << Bonus(v.bos = BEARISH, 10, " BOS confirmed."),
       Bonus(v.choch = BEARISH, 10, " CHoCH reversal."),
       Bonus(v.orderBlock = BEARISH, 5, " Bearish OB."),
       Bonus(v.mitigation = BEARISH, 5, " Mitigation Block confirmed."),
       Bonus(v.breaker = BEARISH, 5, " Breaker Block formed."),
       Bonus(v.hasFVG, 3, " FVG imbalance."),
       Bonus(v.volumeSurge, 3, " Heavy selling volume."),
       Bonus(v.liquiditySweep = BEARISH, 4, " Bearish liquidity sweep.") >>

\* the bonuses applied in their order to (signal, confidence, explanation)
RECURSIVE ApplyBonuses(_, _)
ApplyBonuses(decision, bonuses) ==
    IF bonuses = << >> THEN decision
    ELSE LET b == Head(bonuses)
         IN  ApplyBonuses(IF b.cond
                          THEN [ decision EXCEPT !.confidence = @ + b.weight,
                                                 !.explanation = @ \o b.text ]
                          ELSE decision,
                          Tail(bonuses))

Decision(signal, confidence, explanation) ==
    [ signal |-> signal, confidence |-> confidence, explanation |-> explanation ]

\* Math.min(confidence, 99)
CapConfidence_Off(confidence) == confidence

CapConfidence(confidence) == IF confidence < 99 THEN confidence ELSE 99

generateSMCSignal(stock) ==
    LET v == Detect(stock)
        initial == Decision("HOLD", HoldConfidence, HoldExplanation)
        afterBuy == IF BuyGate(stock)
                    THEN ApplyBonuses(Decision("BUY", BaseConfidence, BuyExplanation),
                                      BuyBonuses(v))
                    ELSE initial
        afterSell == IF SellGate(stock)
                     THEN ApplyBonuses(Decision("SELL", BaseConfidence, SellExplanation),
                                       SellBonuses(v))
                     ELSE afterBuy
    IN  EmitSignal(afterSell.signal, CapConfidence(afterSell.confidence),
                   afterSell.explanation, stock.current)

\* ------------------------------------------------------------------------
\* Trade lifecycle tracker (xaiLogic)
\* ------------------------------------------------------------------------
StopExplanation == "Stoploss hit."
TargetExplanation == "Target 1 hit."
EodStopExplanation == "Stoploss hit intraday."
EodTargetExplanation == "Target reached."
NoExplanation == "No explanation"

\* the resolving literal with finalPrice left at the entry price
Resolve_EntryAsFinal(result, status, explanation, price, now) ==
    [ result EXCEPT !.hitStatus   = status,
                    !.explanation = explanation,
                    !.resolved    = Some(TRUE),
                    !.resolvedAt  = Some(ToISOString(now)),
                    !.finalPrice  = result.entryPrice ]

\* the object literal `{ ...result, hitStatus, explanation, resolved: true,
\* resolvedAt: new Date().toISOString(), finalPrice }`
Resolve(result, status, explanation, price, now) ==
    [ result EXCEPT !.hitStatus   = status,
                    !.explanation = explanation,
                    !.resolved    = Some(TRUE),
                    !.resolvedAt  = Some(ToISOString(now)),
                    !.finalPrice  = Some(price) ]

\* updateHitStatus testing the first target before the stop
updateHitStatus_TargetFirst(result, currentPrice, now) ==
    IF TruthyBool(result.resolved) THEN result
    ELSE IF result.signal = "BUY" /\ currentPrice >= result.targets[1]
      THEN Resolve(result, TARGET_HIT, TargetExplanation, currentPrice, now)
    ELSE IF result.signal = "BUY" /\ currentPrice <= result.stoploss
      THEN Resolve(result, STOP_HIT, StopExplanation, currentPrice, now)
    ELSE IF result.signal = "SELL" /\ currentPrice <= result.targets[1]
      THEN Resolve(result, TARGET_HIT, TargetExplanation, currentPrice, now)
    ELSE IF result.signal = "SELL" /\ currentPrice >= result.stoploss
      THEN Resolve(result, STOP_HIT, StopExplanation, currentPrice, now)
    ELSE result

\* updateHitStatus recording the last seen price on a tick that resolves nothing
updateHitStatus_TrackPrice(result, currentPrice, now) ==
    IF TruthyBool(result.resolved) THEN result
    ELSE IF result.signal = "BUY" /\ currentPrice <= result.stoploss
      THEN Resolve(result, STOP_HIT, StopExplanation, currentPrice, now)
    ELSE IF result.signal = "BUY" /\ currentPrice >= result.targets[1]
      THEN Resolve(result, TARGET_HIT, TargetExplanation, currentPrice, now)
    ELSE IF result.signal = "SELL" /\ currentPrice >= result.stoploss
      THEN Resolve(result, STOP_HIT, StopExplanation, currentPrice, now)
    ELSE IF result.signal = "SELL" /\ currentPrice <= result.targets[1]
      THEN Resolve(result, TARGET_HIT, TargetExplanation, currentPrice, now)
    ELSE [ result EXCEPT !.finalPrice = Some(currentPrice) ]

\* updateHitStatus without the guard on resolved
updateHitStatus_NoGuard(result, currentPrice, now) ==
    IF result.signal = "BUY" /\ currentPrice <= result.stoploss
      THEN Resolve(result, STOP_HIT, StopExplanation, currentPrice, now)
    ELSE IF result.signal = "BUY" /\ currentPrice >= result.targets[1]
      THEN Resolve(result, TARGET_HIT, TargetExplanation, currentPrice, now)
    ELSE IF result.signal = "SELL" /\ currentPrice >= result.stoploss
      THEN Resolve(result, STOP_HIT, StopExplanation, currentPrice, now)
    ELSE IF result.signal = "SELL" /\ currentPrice <= result.targets[1]
      THEN Resolve(result, TARGET_HIT, TargetExplanation, currentPrice, now)
    ELSE result

\* updateHitStatus with every direction but SELL tracked as a BUY
updateHitStatus_HoldAsBuy(result, currentPrice, now) ==
    IF TruthyBool(result.resolved) THEN result
    ELSE IF result.signal # "SELL" /\ currentPrice <= result.stoploss
      THEN Resolve(result, STOP_HIT, StopExplanation, currentPrice, now)
    ELSE IF result.signal # "SELL" /\ currentPrice >= result.targets[1]
      THEN Resolve(result, TARGET_HIT, TargetExplanation, currentPrice, now)
    ELSE IF result.signal = "SELL" /\ currentPrice >= result.stoploss
      THEN Resolve(result, STOP_HIT, StopExplanation, currentPrice, now)
    ELSE IF result.signal = "SELL" /\ currentPrice <= result.targets[1]
      THEN Resolve(result, TARGET_HIT, TargetExplanation, currentPrice, now)
    ELSE result

updateHitStatus(result, currentPrice, now) ==
    IF TruthyBool(result.resolved) THEN result
    ELSE IF result.signal = "BUY" /\ currentPrice <= result.stoploss
      THEN Resolve(result, STOP_HIT, StopExplanation, currentPrice, now)
    ELSE IF result.signal = "BUY" /\ currentPrice >= result.targets[1]
      THEN Resolve(result, TARGET_HIT, TargetExplanation, currentPrice, now)
    ELSE IF result.signal = "SELL" /\ currentPrice >= result.stoploss
      THEN Resolve(result, STOP_HIT, StopExplanation, currentPrice, now)
    ELSE IF result.signal = "SELL" /\ currentPrice <= result.targets[1]
      THEN Resolve(result, TARGET_HIT, TargetExplanation, currentPrice, now)
    ELSE result

\* the end-of-day outcome testing the first target before the stop
EodOutcome_TargetFirst(signal, dayHigh, dayLow) ==
    IF signal.signal = "BUY" THEN
         IF dayHigh >= signal.targets[1] THEN << TARGET_HIT, EodTargetExplanation >>
         ELSE IF dayLow <= signal.stoploss THEN << STOP_HIT, EodStopExplanation >>
         ELSE << ACTIVE, signal.explanation >>
    ELSE IF signal.signal = "SELL" THEN
         IF dayLow <= signal.targets[1] THEN << TARGET_HIT, EodTargetExplanation >>
         ELSE IF dayHigh >= signal.stoploss THEN << STOP_HIT, EodStopExplanation >>
         ELSE << ACTIVE, signal.explanation >>
    ELSE << ACTIVE, signal.explanation >>

\* finalStatus / finalExplanation of evaluateEndOfDayResult, as a pair
EodOutcome(signal, dayHigh, dayLow) ==
    IF signal.signal = "BUY" THEN
         IF dayLow <= signal.stoploss THEN << STOP_HIT, EodStopExplanation >>
         ELSE IF dayHigh >= signal.targets[1] THEN << TARGET_HIT, EodTargetExplanation >>
         ELSE << ACTIVE, signal.explanation >>
    ELSE IF signal.signal = "SELL" THEN
         IF dayHigh >= signal.stoploss THEN << STOP_HIT, EodStopExplanation >>
         ELSE IF dayLow <= signal.targets[1] THEN << TARGET_HIT, EodTargetExplanation >>
         ELSE << ACTIVE, signal.explanation >>
    ELSE << ACTIVE, signal.explanation >>

\* evaluateEndOfDayResult closing at the extreme that triggered the resolution
evaluateEndOfDayResult_Extreme(signal, dayHigh, dayLow, closePrice, now) ==
    IF TruthyBool(signal.resolved) THEN signal
    ELSE LET o == EodOutcome(signal, dayHigh, dayLow)
             extreme == IF (signal.signal = "BUY") = (o[1] = STOP_HIT) THEN dayLow ELSE dayHigh
         IN  [ signal EXCEPT !.hitStatus   = o[1],
                             !.finalPrice  = Some(IF o[1] = ACTIVE THEN closePrice ELSE extreme),
                             !.resolved    = Some(TRUE),
                             !.resolvedAt  = Some(ToISOString(now)),
                             !.explanation = o[2] ]

evaluateEndOfDayResult(signal, dayHigh, dayLow, closePrice, now) ==
    IF TruthyBool(signal.resolved) THEN signal
    ELSE LET o == EodOutcome(signal, dayHigh, dayLow)
         IN  [ signal EXCEPT !.hitStatus   = o[1],
                             !.finalPrice  = Some(closePrice),
                             !.resolved    = Some(TRUE),
                             !.resolvedAt  = Some(ToISOString(now)),
                             !.explanation = o[2] ]

\* ------------------------------------------------------------------------
\* tradeManager
\* ------------------------------------------------------------------------
\* signalToTradeResult with BOS for a first target ahead of the entry price
signalToTradeResult_TargetAhead(signal, symbol) ==
    LET bos == IF TruthyNum(signal.entryPrice) /\ Len(signal.targets) > 0
               THEN IF signal.signal = "BUY"
                      THEN (IF signal.entryPrice[1] < signal.targets[1] THEN "BOS" ELSE "CHoCH")
                    ELSE IF signal.signal = "SELL"
                      THEN (IF signal.entryPrice[1] > signal.targets[1] THEN "BOS" ELSE "CHoCH")
                    ELSE "null"
               ELSE "null"
    IN  [ symbol      |-> symbol,
          signal      |-> signal.signal,
          stoploss    |-> signal.stoploss,
          targets     |-> signal.targets,
          confidence  |-> signal.confidence,
          hitStatus   |-> signal.hitStatus,
          explanation |-> Some(signal.explanation),
          entry       |-> signal.entryPrice,
          finalPrice  |-> signal.finalPrice,
          resolved    |-> signal.resolved,
          resolvedAt  |-> signal.resolvedAt,
          bos         |-> bos ]

signalToTradeResult(signal, symbol) ==
    LET bos == IF TruthyNum(signal.entryPrice) /\ Len(signal.targets) > 0
               THEN IF signal.signal = "BUY"
                      THEN (IF signal.entryPrice[1] > signal.targets[1] THEN "BOS" ELSE "CHoCH")
                    ELSE IF signal.signal = "SELL"
                      THEN (IF signal.entryPrice[1] < signal.targets[1] THEN "BOS" ELSE "CHoCH")
                    ELSE "null"
               ELSE "null"
    IN  [ symbol      |-> symbol,
          signal      |-> signal.signal,
          stoploss    |-> signal.stoploss,
          targets     |-> signal.targets,
          confidence  |-> signal.confidence,
          hitStatus   |-> signal.hitStatus,
          explanation |-> Some(signal.explanation),
          entry       |-> signal.entryPrice,
          finalPrice  |-> signal.finalPrice,
          resolved    |-> signal.resolved,
          resolvedAt  |-> signal.resolvedAt,
          bos         |-> bos ]

\* the SignalResult literal that updateLiveTrade and endOfDayEvaluate pass down
\* (it has no resolvedAt)
TradeAsSignal(trade) ==
    [ signal      |-> trade.signal,
      stoploss    |-> trade.stoploss,
      targets     |-> trade.targets,
      confidence  |-> trade.confidence,
      hitStatus   |-> trade.hitStatus,
      explanation |-> Nullish(trade.explanation, NoExplanation),
      entryPrice  |-> trade.entry,
      resolved    |-> Some(Nullish(trade.resolved, FALSE)),
      finalPrice  |-> trade.finalPrice,
      resolvedAt  |-> None ]

\* `{ ...trade, hitStatus, resolved, finalPrice, resolvedAt, explanation }`
MergeSignal(trade, updatedSignal) ==
    [ trade EXCEPT !.hitStatus   = updatedSignal.hitStatus,
                   !.resolved    = updatedSignal.resolved,
                   !.finalPrice  = updatedSignal.finalPrice,
                   !.resolvedAt  = updatedSignal.resolvedAt,
                   !.explanation = Some(updatedSignal.explanation) ]

updateLiveTrade(trade, currentPrice, now) ==
    MergeSignal(trade, updateHitStatus(TradeAsSignal(trade), currentPrice, now))

endOfDayEvaluate(trade, dayHigh, dayLow, closePrice, now) ==
    MergeSignal(trade,
                evaluateEndOfDayResult(TradeAsSignal(trade), dayHigh, dayLow, closePrice, now))

\* JSON.stringify / JSON.parse of a trade list.  A property holding undefined is
\* not written, and reads back absent: both are None here.
Stringify(trades) == [ json |-> trades ]
Parse(item) == item.json

\* the value saveTradeHistory puts under @trade_history
saveTradeHistory(trades) == Some(Stringify(trades))

\* loadTradeHistory on the stored item: `data ? JSON.parse(data) : []`
loadTradeHistory(item) == IF item = None THEN << >> ELSE Parse(item[1])

\* ------------------------------------------------------------------------
\* Numbers of the accuracy: IEEE 754 doubles (JavaScript numbers)
\*
\* A positive double is [ hi, mid, lo, e ]: its 53 significand bits cut into
\* limbs of 17, 18 and 18 bits (the first bit of hi is 1), and e the binary
\* exponent of that first bit; its value is
\*     (hi * 2^36 + mid * 2^18 + lo) * 2^(e - 52).
\* Every operation rounds to nearest, ties to even.
\* ------------------------------------------------------------------------
Limb == 2^18
HiMin == 2^16

Zero == [ hi |-> 0, mid |-> 0, lo |-> 0, e |-> 0 ]

\* a / b scaled by powers of two until b <= a < 2b, with the exponent taken out
RECURSIVE Normalize(_, _, _)
Normalize(a, b, e) ==
    IF a < b THEN Normalize(2 * a, b, e - 1)
    ELSE IF a >= 2 * b THEN Normalize(a, 2 * b, e + 1)
    ELSE << a, b, e >>

\* the double nearest to significand + cut-off part, where cut says how the
\* cut-off part compares with half a unit of the last bit: -1, 0 or 1
RoundToNearestEven(hi, mid, lo, e, cut) ==
    IF cut > 0 \/ (cut = 0 /\ (lo % 2) = 1)
    THEN IF lo + 1 < Limb THEN [ hi |-> hi, mid |-> mid, lo |-> lo + 1, e |-> e ]
         ELSE IF mid + 1 < Limb THEN [ hi |-> hi, mid |-> mid + 1, lo |-> 0, e |-> e ]
         ELSE IF hi + 1 < 2 * HiMin THEN [ hi |-> hi + 1, mid |-> 0, lo |-> 0, e |-> e ]
         ELSE [ hi |-> HiMin, mid |-> 0, lo |-> 0, e |-> e + 1 ]
    ELSE [ hi |-> hi, mid |-> mid, lo |-> lo, e |-> e ]

\* num / den of two integers, num >= 0, den > 0
FDiv(num, den) ==
    IF num = 0 THEN Zero
    ELSE LET n == Normalize(num, den, 0)
             b == n[2]
             hi == (n[1] * HiMin) \div b
             r1 == (n[1] * HiMin) % b
             mid == (r1 * Limb) \div b
             r2 == (r1 * Limb) % b
             lo == (r2 * Limb) \div b
             r3 == (r2 * Limb) % b
             cut == IF 2 * r3 > b THEN 1 ELSE IF 2 * r3 = b THEN 0 ELSE -1
         IN  RoundToNearestEven(hi, mid, lo, n[3], cut)

\* x * c for a double x and an integer 1 <= c < 2^7
FMul(x, c) ==
    IF x = Zero THEN Zero
    ELSE LET p0 == c * x.lo
             p1 == (c * x.mid) + (p0 \div Limb)
             p2 == (c * x.hi) + (p1 \div Limb)
             l0 == p0 % Limb
             l1 == p1 % Limb
             \* the bits the product has more than 53
             s == CHOOSE k \in 0..7 : (p2 \div (2^k)) \in HiMin..(2 * HiMin - 1)
             up == 2^(18 - s)
             hi == p2 \div (2^s)
             mid == ((p2 % (2^s)) * up) + (l1 \div (2^s))
             lo == ((l1 % (2^s)) * up) + (l0 \div (2^s))
             rest == l0 % (2^s)
             cut == IF 2 * rest > 2^s THEN 1 ELSE IF 2 * rest = 2^s THEN 0 ELSE -1
         IN  RoundToNearestEven(hi, mid, lo, x.e + s, cut)

\* Math.round(x) of a double 0 <= x < 2^16: floor(x + 1/2)
MathRound(x) ==
    IF x = Zero \/ x.e < -1 THEN 0
    ELSE IF x.e = -1 THEN 1
    ELSE (x.hi \div (2^(16 - x.e))) + ((x.hi \div (2^(15 - x.e))) % 2)

\* Math.round((num / den) * 100)
RoundPercent(num, den) == MathRound(FMul(FDiv(num, den), 100))

computeAccuracy(trades) ==
    LET resolvedTrades == SelectSeq(trades, LAMBDA t : TruthyBool(t.resolved))
        success == Len(SelectSeq(resolvedTrades, LAMBDA t : t.hitStatus = TARGET_HIT))
    IN  IF Len(resolvedTrades) = 0 THEN 0
        ELSE RoundPercent(success, Len(resolvedTrades))

\* ------------------------------------------------------------------------
\* HomeScreen: records and list helpers
\* ------------------------------------------------------------------------
\* the symbols of the screen, in the order loadData walks them (one polled
\* stock and one streamed crypto pair of defaultSymbols)
Symbols == << "TCS.NS", "BTC/USD" >>

\* live prices around the entry price 1000: under the BUY stop and SELL target,
\* between the levels, over the BUY target and SELL stop
LivePrices == { 950, 1000, 1050 }

\* trades.find((t) => t.symbol === symbol), as an optional
Find(trades, symbol) ==
    LET at == { i \in 1..Len(trades) : trades[i].symbol = symbol }
    IN  IF at = {} THEN None
        ELSE Some(trades[CHOOSE i \in at : \A j \in at : i <= j])

\* trades.map((t) => (t.symbol === symbol ? updated : t))
ReplaceSymbol(trades, symbol, updated) ==
    [ i \in 1..Len(trades) |-> IF trades[i].symbol = symbol THEN updated ELSE trades[i] ]

ReplaceOrAppend_KeepPrior(trades, trade) ==
    Append(trades, trade)

\* [...trades.filter((t) => t.symbol !== s), trade]
ReplaceOrAppend(trades, trade) ==
    Append(SelectSeq(trades, LAMBDA t : t.symbol # trade.symbol), trade)

\* a StockDisplay built from a trade: `{ ...trade, explanation: trade.explanation || "" }`
\* (the price and justUpdated of the card are presentation only and left out)
ToDisplay(t) == [ t EXCEPT !.explanation = Some(OrEmpty(t.explanation)) ]

\* the SignalResult literal built from a displayed record
DisplayAsSignal(d) ==
    [ signal      |-> d.signal,
      stoploss    |-> d.stoploss,
      targets     |-> d.targets,
      confidence  |-> d.confidence,
      hitStatus   |-> d.hitStatus,
      explanation |-> d.explanation[1],
      entryPrice  |-> d.entry,
      resolved    |-> d.resolved,
      finalPrice  |-> d.finalPrice,
      resolvedAt  |-> None ]

\* the SignalResult literal built from a persisted trade
StoredAsSignal(t) ==
    [ signal      |-> t.signal,
      stoploss    |-> t.stoploss,
      targets     |-> t.targets,
      confidence  |-> t.confidence,
      hitStatus   |-> t.hitStatus,
      explanation |-> OrEmpty(t.explanation),
      entryPrice  |-> t.entry,
      resolved    |-> t.resolved,
      finalPrice  |-> t.finalPrice,
      resolvedAt  |-> None ]

\* `{ ...s, hitStatus, resolved, finalPrice, explanation: newStatus.explanation || "" }`
ApplyHit(r, newHit) ==
    [ r EXCEPT !.hitStatus   = newHit.hitStatus,
               !.resolved    = newHit.resolved,
               !.finalPrice  = newHit.finalPrice,
               !.explanation = Some(newHit.explanation) ]

\* the live-feed callback's updater of the displayed list
FeedDisplay(list, symbol, price, now) ==
    [ i \in 1..Len(list) |->
        IF list[i].symbol # symbol THEN list[i]
        ELSE ApplyHit(list[i], updateHitStatus(DisplayAsSignal(list[i]), price, now)) ]

\* the live-feed callback's update of the persisted trade: the status alone
FeedTrade(existingTrade, price, now) ==
    [ existingTrade EXCEPT
        !.hitStatus = updateHitStatus(StoredAsSignal(existingTrade), price, now).hitStatus ]

\* out.sort((a, b) => b.confidence - a.confidence): stable, by falling confidence
RECURSIVE SortByConfidence(_)
SortByConfidence(list) ==
    IF Len(list) <= 1 THEN list
    ELSE LET rest == SortByConfidence(Tail(list))
             before == SelectSeq(rest, LAMBDA x : x.confidence > Head(list).confidence)
             after == SelectSeq(rest, LAMBDA x : x.confidence <= Head(list).confidence)
         IN  before \o << Head(list) >> \o after

\* ------------------------------------------------------------------------
\* State
\* ------------------------------------------------------------------------
VARIABLES
    sig,        \* the SignalResult a caller of xaiLogic holds
    trade,      \* the TradeResult a caller of tradeManager holds
    subject,    \* which of the two records the caller drives: "signal" | "trade"
    origin,     \* "synth": emitted by generateSMCSignal; "constructed": built by hand
    call,       \* the last call of xaiLogic / tradeManager: its name, arguments, and
                \* (for a tracker call) its input's resolved flag
    ret,        \* what the last call of an indicator, a detector or computeAccuracy returned
    clock,      \* Date.now()
    store,      \* AsyncStorage: the item under @trade_history
    stockData,  \* HomeScreen: the displayed list (useState)
    accuracy,   \* HomeScreen: the displayed accuracy (useState)
    accuracyDue,\* HomeScreen: a refreshAccuracy() call has not yet read the store
    ld,         \* HomeScreen: the loadData run of the mount
    rp,         \* HomeScreen: the refreshPrices run, if any
    cb,         \* HomeScreen: the live-feed callbacks in flight
    feeds,      \* number of live-feed callbacks invoked so far
    cache,      \* fetchStockData: the module's cache, by normalized symbol key
    fetches,    \* fetchStockData: the calls made by the screens
    live        \* startLiveFeed: the sockets, the interval and the handlers in flight

trackerVars == << sig, trade, subject, origin, call, ret, clock >>
homeVars == << store, stockData, accuracy, accuracyDue, ld, rp, cb, feeds >>
providerVars == << cache, fetches, live >>
vars == << sig, trade, subject, origin, call, ret, clock,
           store, stockData, accuracy, accuracyDue, ld, rp, cb, feeds,
           cache, fetches, live >>

\* ------------------------------------------------------------------------
\* Inputs
\* ------------------------------------------------------------------------
TrackedSymbol == "TCS.NS"

\* entry price of the synthesized signals (100.0)
Currents == { 1000 }

\* live and end-of-day prices: around each entry price, every level of the
\* synthesizer one below, at and above
PricesAround(c) == { (c * k) \div 1000 : k \in {950, 985, 990, 1000, 1010, 1015, 1050} }
Prices == UNION { PricesAround(c) : c \in Currents }

\* (stoploss, first target) of the hand-built records: 95 and 105 on an entry of
\* 100, and the same two crossed, so that one price can meet both conditions
TestLevels == { << 950, 1050 >>, << 1050, 950 >> }

SynthSignals ==
    { EmitSignal("HOLD", HoldConfidence, HoldExplanation, c) : c \in Currents }
      \cup { EmitSignal("BUY", BaseConfidence, BuyExplanation, c) : c \in Currents }
      \cup { EmitSignal("SELL", BaseConfidence, SellExplanation, c) : c \in Currents }

ConstructedSignals ==
    { [ EmitSignal(d, BaseConfidence, BuyExplanation, 1000)
          EXCEPT !.stoploss = lv[1], !.targets = << lv[2], lv[2], lv[2] >> ] :
        d \in {"BUY", "SELL"}, lv \in TestLevels }

\* hand-built TradeResults, with the optional explanation / resolved left out or not
ConstructedTrades ==
    { [ signalToTradeResult(g, TrackedSymbol)
          EXCEPT !.explanation = e, !.resolved = r ] :
        g \in ConstructedSignals,
        e \in { None, Some(BuyExplanation) },
        r \in { None, Some(FALSE) } }

\* A tracker call as the history keeps it.  A call on a resolved record returns
\* before it reads its arguments, and the history keeps none for it.
Call(op, wasResolved, args) ==
    [ op |-> op, wasResolved |-> wasResolved, args |-> IF wasResolved THEN << >> ELSE args ]

NoCall == [ op |-> "none", wasResolved |-> FALSE, args |-> << >> ]

\* ------------------------------------------------------------------------
\* Provider layer (fetchStockData): the cache and one call of fetchStockData
\*
\* A call is a record: pc is "idle" before the call, the provider function it
\* awaits while a request is out, "done" when its promise is resolved;
\* requests is the number of provider requests it issued, data what it
\* resolved with.
\* ------------------------------------------------------------------------
CACHE_TTL_MS == 60000

\* calls of fetchStockData by the screens that are followed at a time
MaxCalls == 1

\* toUpperCase, on the symbols of the model
ToUpperCase(s) ==
    IF s = "btcusdt" THEN "BTCUSDT" ELSE IF s = "tcs" THEN "TCS" ELSE s

EndsWith(s, suffix) ==
    Len(s) >= Len(suffix) /\ SubSeq(s, Len(s) - Len(suffix) + 1, Len(s)) = suffix

normalizeSymbol(input) ==
    LET s == ToUpperCase(input)
    IN  IF s \in { "NIFTY", "NIFTY50", "NSE:NIFTY50" }
          THEN [ kind |-> "index", code |-> "^NSEI", key |-> "NIFTY" ]
        ELSE IF s \in { "BANKNIFTY", "NSE:BANKNIFTY" }
          THEN [ kind |-> "index", code |-> "^NSEBANK", key |-> "BANKNIFTY" ]
        ELSE IF s \in { "BTC/USD", "BTCUSDT", "BTC-USD" }
          THEN [ kind |-> "crypto", code |-> "BTCUSDT", key |-> "BTC/USD" ]
        ELSE IF s \in { "ETH/USD", "ETHUSDT", "ETH-USD" }
          THEN [ kind |-> "crypto", code |-> "ETHUSDT", key |-> "ETH/USD" ]
        ELSE IF s \in { "SOL/USD", "SOLUSDT", "SOL-USD" }
          THEN [ kind |-> "crypto", code |-> "SOLUSDT", key |-> "SOL/USD" ]
        ELSE LET code == IF EndsWith(s, ".NS") THEN s ELSE s \o ".NS"
             IN  [ kind |-> "stock", code |-> code, key |-> code ]

\* emptyStock(key): what fetchStockData returns when every provider failed
emptyStock ==
    [ current       |-> 1,
      previousClose |-> 1,
      prices        |-> [ i \in 1..100 |-> 1 ],
      highs         |-> [ i \in 1..100 |-> 1 ],
      lows          |-> [ i \in 1..100 |-> 1 ],
      volumes       |-> [ i \in 1..100 |-> 1 ] ]

IdleFetch ==
    [ pc |-> "idle", symbol |-> "", key |-> "", requests |-> 0, data |-> None ]

Pending(f) == f.pc \in { "fetchBinance", "fetchYahoo", "fetchAlphaVantage" }

\* fetchStockData with an entry served however old it is
BeginFetch_NeverExpires(inputSymbol, now, c) ==
    LET n == normalizeSymbol(inputSymbol)
        cached == c[n.key]
        f == [ IdleFetch EXCEPT !.symbol = inputSymbol, !.key = n.key ]
    IN  IF cached # None
        THEN [ f EXCEPT !.pc = "done", !.data = Some(cached[1].data) ]
        ELSE [ f EXCEPT !.pc = IF n.kind = "crypto" THEN "fetchBinance" ELSE "fetchYahoo",
                        !.requests = 1 ]

\* fetchStockData up to its first await: the cached data, or the first
\* provider request
BeginFetch(inputSymbol, now, c) ==
    LET n == normalizeSymbol(inputSymbol)
        cached == c[n.key]
        f == [ IdleFetch EXCEPT !.symbol = inputSymbol, !.key = n.key ]
    IN  IF cached # None /\ now - cached[1].ts < CACHE_TTL_MS
        THEN [ f EXCEPT !.pc = "done", !.data = Some(cached[1].data) ]
        ELSE [ f EXCEPT !.pc = IF n.kind = "crypto" THEN "fetchBinance" ELSE "fetchYahoo",
                        !.requests = 1 ]

\* fetchStockData resumed by a provider's result (null is None): after a null
\* from fetchYahoo it asks fetchAlphaVantage, otherwise it resolves with
\* result ?? emptyStock(key)
ReplyFetch(f, result) ==
    IF f.pc = "fetchYahoo" /\ result = None
    THEN [ f EXCEPT !.pc = "fetchAlphaVantage", !.requests = @ + 1 ]
    ELSE [ f EXCEPT !.pc = "done", !.data = Some(Nullish(result, emptyStock)) ]

\* cache[key] = { data: final, ts: Date.now() }, when the call has resolved
CacheAfter(f, c, now) ==
    IF f.pc = "done" THEN [ c EXCEPT ![f.key] = Some([ data |-> f.data[1], ts |-> now ]) ]
    ELSE c

\* ------------------------------------------------------------------------
\* Live feed (liveFeed): startLiveFeed(symbols, callback) has returned; one
\* socket per crypto symbol is open and the polling interval is set.  ws is
\* the fetchStockData call an onmessage handler awaits, poll the pass of the
\* interval callback over the non-crypto symbols (i = 0: no pass under way),
\* late whether callback has been invoked after stop() returned.
\* ------------------------------------------------------------------------
FeedSymbols == << "TCS.NS", "INFY.NS", "BTC/USD" >>

cryptoSymbols ==
    SelectSeq(FeedSymbols,
              LAMBDA s : ToUpperCase(s) \in { "BTC/USD", "ETH/USD", "SOL/USD",
                                              "BTCUSDT", "ETHUSDT", "SOLUSDT" })

stockSymbols ==
    SelectSeq(FeedSymbols, LAMBDA s : \A i \in 1..Len(cryptoSymbols) : cryptoSymbols[i] # s)

NoPass == [ i |-> 0, fetch |-> IdleFetch ]

RECURSIVE PollFrom(_, _, _)
\* the pass from stockSymbols[i] on, up to its next await of a provider: a
\* symbol served from the cache is called back at once
PollFrom(i, now, c) ==
    IF i > Len(stockSymbols) THEN NoPass
    ELSE LET f == BeginFetch(stockSymbols[i], now, c)
         IN  IF f.pc = "done" THEN PollFrom(i + 1, now, c)
             ELSE [ i |-> i, fetch |-> f ]

ProviderInit ==
    /\ cache = [ key \in { normalizeSymbol(FeedSymbols[i]).key : i \in 1..Len(FeedSymbols) }
                   |-> None ]
    /\ fetches = [ k \in 1..MaxCalls |-> IdleFetch ]
    /\ live = [ stopped |-> FALSE, ws |-> IdleFetch, poll |-> NoPass, late |-> FALSE ]

\* ------------------------------------------------------------------------
\* HomeScreen after mount: nothing stored, nothing shown, loadData awaiting the
\* data of the first symbol, no callback in flight
\* ------------------------------------------------------------------------
IdleCallback == [ pc |-> "idle", symbol |-> "", price |-> 0, snapshot |-> << >> ]
IdleRefresh(runs) ==
    [ pc |-> "idle", i |-> 0, list |-> << >>, newHit |-> None, snapshot |-> << >>,
      updated |-> << >>, runs |-> runs ]

HomeInit ==
    /\ store = None
    /\ stockData = << >>
    /\ accuracy = 0
    /\ accuracyDue = FALSE
    /\ ld = [ pc |-> "load", i |-> 1, made |-> None, snapshot |-> << >>, out |-> << >> ]
    /\ rp = IdleRefresh(0)
    /\ cb = [ k \in 1..MaxCallbacks |-> IdleCallback ]
    /\ feeds = 0
    /\ ProviderInit

\* ------------------------------------------------------------------------
\* Tracker: a caller feeding prices to a record it holds
\* ------------------------------------------------------------------------
InitTracker ==
    /\ clock = 0
    /\ call = NoCall
    /\ ret = None
    /\ subject \in { "signal", "trade" }
    /\ origin \in { "synth", "constructed" }
    /\ sig \in (IF subject = "signal" /\ origin = "constructed"
                THEN ConstructedSignals ELSE SynthSignals)
    /\ trade \in (IF subject = "trade" /\ origin = "constructed"
                  THEN ConstructedTrades
                  ELSE { signalToTradeResult(sig, TrackedSymbol) })
    /\ HomeInit

Tick ==
    /\ clock < MaxClock
    /\ clock' = clock + 1
    /\ UNCHANGED << sig, trade, subject, origin, call >>
    /\ UNCHANGED << ret, homeVars, providerVars >>

Update(p) ==
    /\ subject = "signal"
    /\ sig' = updateHitStatus(sig, p, clock)
    /\ call' = Call("updateHitStatus", TruthyBool(sig.resolved), << p >>)
    /\ UNCHANGED << trade, subject, origin, clock >>
    /\ UNCHANGED << ret, homeVars, providerVars >>

EvaluateEndOfDay(h, l, c) ==
    /\ subject = "signal"
    /\ sig' = evaluateEndOfDayResult(sig, h, l, c, clock)
    /\ call' = Call("evaluateEndOfDayResult", TruthyBool(sig.resolved), << h, l, c >>)
    /\ UNCHANGED << trade, subject, origin, clock >>
    /\ UNCHANGED << ret, homeVars, providerVars >>

UpdateLiveTrade(p) ==
    /\ subject = "trade"
    /\ trade' = updateLiveTrade(trade, p, clock)
    /\ call' = Call("updateLiveTrade", TruthyBool(trade.resolved), << p >>)
    /\ UNCHANGED << sig, subject, origin, clock >>
    /\ UNCHANGED << ret, homeVars, providerVars >>

EndOfDayEvaluate(h, l, c) ==
    /\ subject = "trade"
    /\ trade' = endOfDayEvaluate(trade, h, l, c, clock)
    /\ call' = Call("endOfDayEvaluate", TruthyBool(trade.resolved), << h, l, c >>)
    /\ UNCHANGED << sig, subject, origin, clock >>
    /\ UNCHANGED << ret, homeVars, providerVars >>

\* a day's bar: low <= high; the close is any price of the feed
NextTracker ==
    \/ Tick
    \/ \E p \in Prices : Update(p)
    \/ \E h \in Prices, l \in Prices, c \in Prices : l <= h /\ EvaluateEndOfDay(h, l, c)
    \/ \E p \in Prices : UpdateLiveTrade(p)
    \/ \E h \in Prices, l \in Prices, c \in Prices : l <= h /\ EndOfDayEvaluate(h, l, c)

SpecTracker == InitTracker /\ [][NextTracker]_vars

\* ------------------------------------------------------------------------
\* HomeScreen: loadData, refreshPrices, the live-feed callback, refreshAccuracy
\*
\* Every `await` is a point where the other sequences may run.  A step below is
\* the code between two such points.  The storage read of loadTradeHistory is
\* taken in the step that ends with it; the storage write of saveTradeHistory is
\* made in the step that issues it, with the value stringified at that moment.
\* ------------------------------------------------------------------------
InitHome ==
    /\ clock = 0
    /\ call = NoCall
    /\ ret = None
    /\ subject = "signal"
    /\ origin = "synth"
    /\ sig = EmitSignal("HOLD", HoldConfidence, HoldExplanation, 1000)
    /\ trade = signalToTradeResult(sig, TrackedSymbol)
    /\ HomeInit

\* the signal generateSMCSignal emits for the fetched data of a symbol
Synthesized(d) ==
    EmitSignal(d, IF d = "HOLD" THEN HoldConfidence ELSE BaseConfidence,
               IF d = "BUY" THEN BuyExplanation
               ELSE IF d = "SELL" THEN SellExplanation ELSE HoldExplanation,
               1000)

\* loadData: data of symbols[i] arrives; synthesize, convert, read the store
LdLoad(d) ==
    /\ ld.pc = "load"
    /\ ld' = [ ld EXCEPT !.pc = "save",
                         !.made = Some(signalToTradeResult(Synthesized(d), Symbols[ld.i])),
                         !.snapshot = loadTradeHistory(store) ]
    /\ UNCHANGED << store, stockData, accuracy, accuracyDue, rp, cb, feeds >>
    /\ UNCHANGED << trackerVars, providerVars >>

\* loadData: replace the symbol's record in the list read, save, push to out;
\* after the last symbol sort, show, and call refreshAccuracy()
LdSave ==
    /\ ld.pc = "save"
    /\ LET out == Append(ld.out, ToDisplay(ld.made[1]))
           last == ld.i = Len(Symbols)
       IN  /\ store' = saveTradeHistory(ReplaceOrAppend(ld.snapshot, ld.made[1]))
           /\ ld' = [ pc |-> IF last THEN "done" ELSE "load",
                      i |-> IF last THEN ld.i ELSE ld.i + 1,
                      made |-> None, snapshot |-> << >>,
                      out |-> IF last THEN << >> ELSE out ]
           /\ stockData' = IF last THEN SortByConfidence(out) ELSE stockData
           /\ accuracyDue' = (last \/ accuracyDue)
    /\ UNCHANGED << accuracy, rp, cb, feeds >>
    /\ UNCHANGED << trackerVars, providerVars >>

\* the live feed invokes the callback: the displayed list is updated and
\* loadTradeHistory() is called
CbInvoke(k, symbol, price) ==
    /\ cb[k].pc = "idle"
    /\ \A j \in 1..(k - 1) : cb[j].pc # "idle"
    /\ feeds < MaxFeeds
    /\ feeds' = feeds + 1
    /\ stockData' = FeedDisplay(stockData, symbol, price, clock)
    /\ cb' = [ cb EXCEPT ![k] = [ pc |-> "load", symbol |-> symbol, price |-> price,
                                  snapshot |-> << >> ] ]
    /\ UNCHANGED << store, accuracy, accuracyDue, ld, rp >>
    /\ UNCHANGED << trackerVars, providerVars >>

\* the callback's loadTradeHistory() reads the store
CbLoad(k) ==
    /\ cb[k].pc = "load"
    /\ cb' = [ cb EXCEPT ![k].pc = "save", ![k].snapshot = loadTradeHistory(store) ]
    /\ UNCHANGED << store, stockData, accuracy, accuracyDue, ld, rp, feeds >>
    /\ UNCHANGED << trackerVars, providerVars >>

\* the callback resumes: if the list read holds the symbol, its status is
\* updated, the list saved and refreshAccuracy() called
CbSave(k) ==
    /\ cb[k].pc = "save"
    /\ LET existingTrade == Find(cb[k].snapshot, cb[k].symbol)
       IN  IF existingTrade # None
           THEN /\ store' = saveTradeHistory(
                              ReplaceSymbol(cb[k].snapshot, cb[k].symbol,
                                            FeedTrade(existingTrade[1], cb[k].price, clock)))
                /\ accuracyDue' = TRUE
           ELSE UNCHANGED << store, accuracyDue >>
    /\ cb' = [ cb EXCEPT ![k] = IdleCallback ]
    /\ UNCHANGED << stockData, accuracy, ld, rp, feeds >>
    /\ UNCHANGED << trackerVars, providerVars >>

\* the Refresh button: the run walks the list displayed at the press
RpStart ==
    /\ rp.pc = "idle"
    /\ rp.runs < MaxRefresh
    /\ IF stockData = << >>
       THEN /\ rp' = IdleRefresh(rp.runs + 1)
            /\ accuracyDue' = TRUE
       ELSE /\ rp' = [ IdleRefresh(rp.runs + 1) EXCEPT !.pc = "load", !.i = 1,
                                                       !.list = stockData ]
            /\ UNCHANGED accuracyDue
    /\ UNCHANGED << store, stockData, accuracy, ld, cb, feeds >>
    /\ UNCHANGED << trackerVars, providerVars >>

\* refreshPrices: the price of list[i] arrives; the displayed record is updated
\* into `updated`, and the store read
RpLoad(price) ==
    /\ rp.pc = "load"
    /\ LET stock == rp.list[rp.i]
           newHit == updateHitStatus(DisplayAsSignal(stock), price, clock)
       IN  rp' = [ rp EXCEPT !.pc = "save",
                             !.newHit = Some(newHit),
                             !.updated = Append(rp.updated, ApplyHit(stock, newHit)),
                             !.snapshot = loadTradeHistory(store) ]
    /\ UNCHANGED << store, stockData, accuracy, accuracyDue, ld, cb, feeds >>
    /\ UNCHANGED << trackerVars, providerVars >>

\* refreshPrices: if the list read holds the symbol, the refreshed status is
\* written over its record and the list saved; after the last record the
\* refreshed list is shown and the accuracy refreshed
RpSave ==
    /\ rp.pc = "save"
    /\ LET stock == rp.list[rp.i]
           existingTrade == Find(rp.snapshot, stock.symbol)
           last == rp.i = Len(rp.list)
       IN  /\ IF existingTrade # None
              THEN store' = saveTradeHistory(
                              ReplaceSymbol(rp.snapshot, stock.symbol,
                                            ApplyHit(existingTrade[1], rp.newHit[1])))
              ELSE UNCHANGED store
           /\ rp' = IF last THEN IdleRefresh(rp.runs)
                    ELSE [ rp EXCEPT !.pc = "load", !.i = rp.i + 1, !.newHit = None,
                                     !.snapshot = << >> ]
           /\ stockData' = IF last THEN rp.updated ELSE stockData
           /\ accuracyDue' = (last \/ accuracyDue)
    /\ UNCHANGED << accuracy, ld, cb, feeds >>
    /\ UNCHANGED << trackerVars, providerVars >>

\* refreshAccuracy: read the store, show the accuracy
RefreshAccuracy ==
    /\ accuracyDue
    /\ accuracy' = computeAccuracy(loadTradeHistory(store))
    /\ accuracyDue' = FALSE
    /\ UNCHANGED << store, stockData, ld, rp, cb, feeds >>
    /\ UNCHANGED << trackerVars, providerVars >>

SymbolSet == { Symbols[i] : i \in 1..Len(Symbols) }

NextHome ==
    \/ \E d \in Directions : LdLoad(d)
    \/ LdSave
    \/ \E k \in 1..MaxCallbacks, s \in SymbolSet, p \in LivePrices : CbInvoke(k, s, p)
    \/ \E k \in 1..MaxCallbacks : CbLoad(k)
    \/ \E k \in 1..MaxCallbacks : CbSave(k)
    \/ RpStart
    \/ \E p \in LivePrices : RpLoad(p)
    \/ RpSave
    \/ RefreshAccuracy

SpecHome == InitHome /\ [][NextHome]_vars

\* The runs of HomeScreen in which no load -> save pair is interleaved with
\* another: a sequence reads the store only while no other sequence is between
\* its read and its save.
NoneInFlight ==
    /\ ld.pc # "save"
    /\ rp.pc # "save"
    /\ \A k \in 1..MaxCallbacks : cb[k].pc # "save"

NextHomeSerial ==
    \/ \E d \in Directions : NoneInFlight /\ LdLoad(d)
    \/ LdSave
    \/ \E k \in 1..MaxCallbacks, s \in SymbolSet, p \in LivePrices : CbInvoke(k, s, p)
    \/ \E k \in 1..MaxCallbacks : NoneInFlight /\ CbLoad(k)
    \/ \E k \in 1..MaxCallbacks : CbSave(k)
    \/ RpStart
    \/ \E p \in LivePrices : NoneInFlight /\ RpLoad(p)
    \/ RpSave
    \/ RefreshAccuracy

SpecHomeSerial == InitHome /\ [][NextHomeSerial]_vars

\* HomeScreen mounted again in a later session: AsyncStorage still holds the
\* history of the session before, here a SELL record per symbol whose status a
\* live-feed callback of that session had set to STOP
PriorHistory ==
    [ i \in 1..Len(Symbols) |->
        FeedTrade(signalToTradeResult(Synthesized("SELL"), Symbols[i]), 1050, 0) ]

InitHomeRelaunch ==
    /\ clock = 0
    /\ call = NoCall
    /\ ret = None
    /\ subject = "signal"
    /\ origin = "synth"
    /\ sig = EmitSignal("HOLD", HoldConfidence, HoldExplanation, 1000)
    /\ trade = signalToTradeResult(sig, TrackedSymbol)
    /\ store = saveTradeHistory(PriorHistory)
    /\ stockData = << >>
    /\ accuracy = 0
    /\ accuracyDue = FALSE
    /\ ld = [ pc |-> "load", i |-> 1, made |-> None, snapshot |-> << >>, out |-> << >> ]
    /\ rp = IdleRefresh(0)
    /\ cb = [ k \in 1..MaxCallbacks |-> IdleCallback ]
    /\ feeds = 0
    /\ ProviderInit

SpecHomeRelaunch == InitHomeRelaunch /\ [][NextHome]_vars

\* ------------------------------------------------------------------------
\* Accuracy aggregator: computeAccuracy applied to collections of records the
\* tracker and the live feed leave behind
\* ------------------------------------------------------------------------
MaxResolved == 40

\* a BUY trade as synthesized, and what becomes of it
FreshTrade == signalToTradeResult(Synthesized("BUY"), TrackedSymbol)
WonTrade == updateLiveTrade(FreshTrade, 1050, 0)
LostTrade == updateLiveTrade(FreshTrade, 950, 0)
OpenTrade == updateLiveTrade(FreshTrade, 1000, 0)
\* a day that reached neither level
ExpiredTrade == endOfDayEvaluate(FreshTrade, 1005, 995, 1000, 0)
\* the status a live-feed callback of HomeScreen writes
FeedWonTrade == FeedTrade(FreshTrade, 1050, 0)

RECURSIVE Repeat(_, _)
Repeat(x, n) == IF n = 0 THEN << >> ELSE << x >> \o Repeat(x, n - 1)

Others == { << >>, << OpenTrade >>, << ExpiredTrade >>, << FeedWonTrade >> }

Collections ==
    { other \o Repeat(WonTrade, won) \o Repeat(LostTrade, lost) :
        other \in Others,
        won \in 0..MaxResolved, lost \in 0..MaxResolved }

\* computeAccuracy has been called with a collection and has not returned yet
InitAccuracy ==
    /\ clock = 0
    /\ \E trades \in Collections :
          /\ Len(trades) <= MaxResolved + 1
          /\ call = Call("computeAccuracy", FALSE, << trades >>)
    /\ ret = None
    /\ subject = "trade"
    /\ origin = "synth"
    /\ sig = Synthesized("BUY")
    /\ trade = FreshTrade
    /\ HomeInit

ComputeAccuracy ==
    /\ call.op = "computeAccuracy" /\ ret = None
    /\ ret' = Some(computeAccuracy(call.args[1]))
    /\ UNCHANGED << sig, trade, subject, origin, call, clock >>
    /\ UNCHANGED << homeVars, providerVars >>

NextAccuracy == ComputeAccuracy

SpecAccuracy == InitAccuracy /\ [][NextAccuracy]_vars

\* ------------------------------------------------------------------------
\* Synthesizer: generateSMCSignal applied to the StockData of a fetch
\* ------------------------------------------------------------------------
TailLen == 6

\* the StockData fetchYahoo / fetchBinance build from the sanitized series
FetchedStock(closes, highs, lows, volumes) ==
    LET lastIdx == Len(closes) - 1
        previous == At(closes, lastIdx - 1)
    IN  [ current       |-> closes[lastIdx + 1],
          previousClose |-> IF TruthyNum(previous) THEN previous[1] ELSE closes[lastIdx + 1],
          prices        |-> SliceFrom(closes, -100),
          highs         |-> SliceFrom(highs, -100),
          lows          |-> SliceFrom(lows, -100),
          volumes       |-> SliceFrom(volumes, -100) ]

\* Closing prices: 15 closes at 204.000, then TailLen closes that each lie 10.2
\* above, at, or 10.2 below the ema of the closes before (so that every ema is
\* a whole number: 51 * 0.2 = 10.2 moves it by 2 * 0.2).
RECURSIVE Walk(_, _, _)
Walk(closes, ema, moves) ==
    IF moves = << >> THEN closes
    ELSE Walk(Append(closes, ema + 10200 * Head(moves)), ema + 400 * Head(moves), Tail(moves))

ClosingSeries ==
    { Walk([ i \in 1..15 |-> 204000 ], 204000, moves) :
        moves \in [ 1..TailLen -> { -1, 0, 1 } ] }

\* Highs and lows: flat but for the last bar, whose high is at, 0.15% above or
\* 1% above the high three bars back, and whose low is at, 0.15% below or 1%
\* below the low three bars back; the lows run at the highs or 2% under them.
Bars(flat, last) == [ i \in 1..21 |-> IF i = 21 THEN last ELSE flat ]

HighSeries == { Bars(100000, h) : h \in { 100000, 100150, 101000 } }

LowSeries ==
    { Bars(l, (l * k) \div 10000) : l \in { 100000, 98000 }, k \in { 10000, 9985, 9900 } }

\* Volumes: flat, or the last one above 1.5 times the mean of the last ten
VolumeSeries == { Bars(17, w) : w \in { 17, 28 } }

Stocks ==
    { FetchedStock(c, h, l, w) :
        c \in ClosingSeries, h \in HighSeries, l \in LowSeries, w \in VolumeSeries }
      \cup { emptyStock }

\* generateSMCSignal has been called with a StockData and has not returned yet
InitSynth ==
    /\ clock = 0
    /\ \E stock \in Stocks : call = Call("generateSMCSignal", FALSE, << stock >>)
    /\ ret = None
    /\ subject = "signal"
    /\ origin = "synth"
    /\ sig = EmitSignal("HOLD", HoldConfidence, HoldExplanation, 1000)
    /\ trade = signalToTradeResult(sig, TrackedSymbol)
    /\ HomeInit

\* it returns; the caller keeps the signal and converts it (loadData)
Generate ==
    /\ call.op = "generateSMCSignal" /\ ret = None
    /\ ret' = Some(generateSMCSignal(call.args[1]))
    /\ sig' = ret'[1]
    /\ trade' = signalToTradeResult(sig', TrackedSymbol)
    /\ UNCHANGED << subject, origin, call, clock >>
    /\ UNCHANGED << homeVars, providerVars >>

NextSynth == Generate

SpecSynth == InitSynth /\ [][NextSynth]_vars

\* ------------------------------------------------------------------------
\* The indicators on their own: one call of an indicator with a series of
\* up to MaxSeries samples and a period of up to MaxPeriod
\* ------------------------------------------------------------------------
MaxSeries == 4
MaxPeriod == 4
MaxSample == 3

SeriesUpTo(n, samples) == UNION { [ 1..k -> samples ] : k \in 0..n }

Indicators == { "calculateSMA", "calculateEMA", "calculateRSI" }

InitIndicators ==
    /\ clock = 0
    /\ \E op \in Indicators, data \in SeriesUpTo(MaxSeries, 1..MaxSample), period \in 1..MaxPeriod :
          call = Call(op, FALSE, << data, period >>)
    /\ ret = None
    /\ subject = "signal"
    /\ origin = "synth"
    /\ sig = EmitSignal("HOLD", HoldConfidence, HoldExplanation, 1000)
    /\ trade = signalToTradeResult(sig, TrackedSymbol)
    /\ HomeInit

Returns(op, value) ==
    /\ call.op = op /\ ret = None
    /\ ret' = Some(value)
    /\ UNCHANGED << sig, trade, subject, origin, call, clock >>
    /\ UNCHANGED << homeVars, providerVars >>

SMACall == Returns("calculateSMA", calculateSMA(call.args[1], call.args[2]))
EMACall == Returns("calculateEMA", calculateEMA(call.args[1], call.args[2]))
RSICall == Returns("calculateRSI", calculateRSI(call.args[1], call.args[2]))

NextIndicators == SMACall \/ EMACall \/ RSICall

SpecIndicators == InitIndicators /\ [][NextIndicators]_vars

\* ------------------------------------------------------------------------
\* The detectors on their own: one call of a detector with arrays of 0 to
\* MaxWindow elements, the two arrays of a call not necessarily as long as
\* each other
\* ------------------------------------------------------------------------
MaxWindow == 11

PriceLevels == { 1000, 1010, 1025, 1060 }
BarLevels == { 1000, 1060 }
VolumeLevels == { 17, 27, 28 }
SweepCurrents == { 990, 1030, 1070 }

\* n elements, flat but for the last three, which are tail's
Trailing(n, flat, tail) ==
    [ i \in 1..n |-> IF i > n - 3 THEN tail[i - (n - 3)] ELSE flat ]

PriceWindows ==
    { Trailing(n, 1000, tail) : n \in 0..MaxWindow, tail \in [ 1..3 -> PriceLevels ] }
BarWindows ==
    { Trailing(n, 1000, tail) : n \in 0..MaxWindow, tail \in [ 1..3 -> BarLevels ] }
VolumeWindows ==
    { Trailing(n, 17, << 17, 17, w >>) : n \in 0..MaxWindow, w \in VolumeLevels }

DetectorCalls ==
    { Call(op, FALSE, << prices >>) :
        op \in { "detectOrderBlock", "detectMitigationBlock", "detectBreakerBlock" },
        prices \in PriceWindows }
      \cup { Call("detectVolumeSurge", FALSE, << volumes >>) : volumes \in VolumeWindows }
      \cup { Call(op, FALSE, << highs, lows >>) :
               op \in { "detectFairValueGap", "detectBOS", "detectCHoCH" },
               highs \in BarWindows, lows \in BarWindows }
      \cup { Call("detectLiquiditySweep", FALSE, << highs, lows, current >>) :
               highs \in BarWindows, lows \in BarWindows, current \in SweepCurrents }

InitDetectors ==
    /\ clock = 0
    /\ call \in DetectorCalls
    /\ ret = None
    /\ subject = "signal"
    /\ origin = "synth"
    /\ sig = EmitSignal("HOLD", HoldConfidence, HoldExplanation, 1000)
    /\ trade = signalToTradeResult(sig, TrackedSymbol)
    /\ HomeInit

\* what a detector returned and the elements it read by index on the way
Verdict(value, reads) == [ value |-> value, reads |-> reads ]

\* a detector reads by index only past its length guard
PastGuard(short, reads) == IF short THEN << >> ELSE reads

FairValueGapCall ==
    LET highs == call.args[1]
        lows == call.args[2]
    IN  Returns("detectFairValueGap",
                Verdict(detectFairValueGap(highs, lows),
                        PastGuard(Len(highs) < 3 \/ Len(lows) < 3,
                                  detectFairValueGapReads(highs, lows))))

OrderBlockCall ==
    LET prices == call.args[1]
    IN  Returns("detectOrderBlock",
                Verdict(detectOrderBlock(prices),
                        PastGuard(Len(prices) < 5, detectOrderBlockReads(prices))))

VolumeSurgeCall ==
    LET volumes == call.args[1]
    IN  Returns("detectVolumeSurge",
                Verdict(detectVolumeSurge(volumes),
                        PastGuard(Len(volumes) < 10, detectVolumeSurgeReads(volumes))))

LiquiditySweepCall ==
    LET highs == call.args[1]
        lows == call.args[2]
    IN  Returns("detectLiquiditySweep",
                Verdict(detectLiquiditySweep(highs, lows, call.args[3]),
                        PastGuard(Len(highs) < 5 \/ Len(lows) < 5,
                                  detectLiquiditySweepReads(highs, lows))))

MitigationBlockCall ==
    LET prices == call.args[1]
    IN  Returns("detectMitigationBlock",
                Verdict(detectMitigationBlock(prices),
                        PastGuard(Len(prices) < 6, detectMitigationBlockReads(prices))))

BreakerBlockCall ==
    LET prices == call.args[1]
    IN  Returns("detectBreakerBlock",
                Verdict(detectBreakerBlock(prices),
                        PastGuard(Len(prices) < 10, detectBreakerBlockReads(prices))))

BOSCall ==
    LET highs == call.args[1]
        lows == call.args[2]
    IN  Returns("detectBOS",
                Verdict(detectBOS(highs, lows),
                        PastGuard(Len(highs) < 6 \/ Len(lows) < 6,
                                  detectBOSReads(highs, lows))))

CHoCHCall ==
    LET highs == call.args[1]
        lows == call.args[2]
    IN  Returns("detectCHoCH",
                Verdict(detectCHoCH(highs, lows),
                        PastGuard(Len(highs) < 8 \/ Len(lows) < 8,
                                  detectCHoCHReads(highs, lows))))

NextDetectors ==
    \/ FairValueGapCall
    \/ OrderBlockCall
    \/ VolumeSurgeCall
    \/ LiquiditySweepCall
    \/ MitigationBlockCall
    \/ BreakerBlockCall
    \/ BOSCall
    \/ CHoCHCall

SpecDetectors == InitDetectors /\ [][NextDetectors]_vars

\* ------------------------------------------------------------------------
\* Upstream sanitization (fetchStockData): sanitizeArray, and sanitize of the
\* older variant of the module
\*
\* A sample of a provider's series is a JavaScript number: a finite one, or
\* NaN, Infinity or -Infinity.
\* ------------------------------------------------------------------------
Number(n) == [ finite |-> TRUE, value |-> n ]
NaN == [ finite |-> FALSE, value |-> 0 ]
Infinity == [ finite |-> FALSE, value |-> 1 ]
MinusInfinity == [ finite |-> FALSE, value |-> -1 ]

\* Number.isFinite(n) and n > 0
IsFinite(n) == n.finite
Positive(n) == IF n.finite THEN n.value > 0 ELSE n = Infinity
\* a || b: 0 and NaN are falsy
OrElse(a, b) == IF a.value # 0 THEN a ELSE b

RECURSIVE sanitizeArrayLoop_KeepZero(_, _, _)
sanitizeArrayLoop_KeepZero(arr, result, lastValid) ==
    IF arr = << >> THEN result
    ELSE LET n == Head(arr)
         IN  IF ~IsFinite(n) \/ n.value < 0
             THEN sanitizeArrayLoop_KeepZero(Tail(arr), Append(result, OrElse(lastValid, Number(1))), lastValid)
             ELSE sanitizeArrayLoop_KeepZero(Tail(arr), Append(result, n), n)

RECURSIVE sanitizeArrayLoop(_, _, _)
\* for (const n of arr): if (!Number.isFinite(n) || n <= 0) result.push(lastValid || 1)
\* else { result.push(n); lastValid = n }
sanitizeArrayLoop(arr, result, lastValid) ==
    IF arr = << >> THEN result
    ELSE LET n == Head(arr)
         IN  IF ~IsFinite(n) \/ ~Positive(n)
             THEN sanitizeArrayLoop(Tail(arr), Append(result, OrElse(lastValid, Number(1))), lastValid)
             ELSE sanitizeArrayLoop(Tail(arr), Append(result, n), n)

sanitizeArray(arr) == sanitizeArrayLoop(arr, << >>, Number(0))

RECURSIVE sanitizeLoop(_, _, _)
\* for (const n of arr): if (Number.isFinite(n) && n > 0) { result.push(n); last = n }
\* else result.push(last)
sanitizeLoop(arr, result, last) ==
    IF arr = << >> THEN result
    ELSE LET n == Head(arr)
         IN  IF IsFinite(n) /\ Positive(n)
             THEN sanitizeLoop(Tail(arr), Append(result, n), n)
             ELSE sanitizeLoop(Tail(arr), Append(result, last), last)

sanitize(arr) == sanitizeLoop(arr, << >>, Number(1))

MaxRaw == 4

RawSamples == { NaN, Infinity, MinusInfinity, Number(-2), Number(0), Number(1), Number(2) }

InitSanitize ==
    /\ clock = 0
    /\ \E op \in { "sanitizeArray", "sanitize" }, arr \in SeriesUpTo(MaxRaw, RawSamples) :
          call = Call(op, FALSE, << arr >>)
    /\ ret = None
    /\ subject = "signal"
    /\ origin = "synth"
    /\ sig = EmitSignal("HOLD", HoldConfidence, HoldExplanation, 1000)
    /\ trade = signalToTradeResult(sig, TrackedSymbol)
    /\ HomeInit

SanitizeArrayCall == Returns("sanitizeArray", sanitizeArray(call.args[1]))
SanitizeCall == Returns("sanitize", sanitize(call.args[1]))

NextSanitize == SanitizeArrayCall \/ SanitizeCall

SpecSanitize == InitSanitize /\ [][NextSanitize]_vars

\* ------------------------------------------------------------------------
\* A synthesized signal under the live feed: generateSMCSignal is applied to
\* the data of a fetch, the record is shown (loadData), and the feed then
\* delivers up to MaxFed prices one at a time; each is passed to updateHitStatus
\* by a caller that keeps the returned signal, and by the HomeScreen callback,
\* which keeps the returned status in the displayed record.
\* ------------------------------------------------------------------------
MaxFed == 3

\* closes that are flat and end with two moves
LiveClosings ==
    { Walk([ i \in 1..15 |-> 204000 ], 204000,
           [ i \in 1..TailLen |-> IF i = TailLen THEN last
                                  ELSE IF i = TailLen - 1 THEN before ELSE 0 ]) :
        before \in { -1, 0, 1 }, last \in { -1, 0, 1 } }

LiveStocks ==
    { FetchedStock(c, Bars(100000, 100000), Bars(100000, 100000), Bars(17, 17)) :
        c \in LiveClosings }
      \cup { emptyStock }

\* the prices of the feed: every level of the synthesizer one below, at and
\* above, and twice the entry price
LivePricesOf(stock) == PricesAround(stock.current) \cup { 2 * stock.current }

InitLive ==
    /\ clock = 0
    /\ \E stock \in LiveStocks :
          /\ sig = generateSMCSignal(stock)
          /\ \E prices \in SeriesUpTo(MaxFed, LivePricesOf(stock)) :
                call = Call("startLiveFeed", FALSE, << prices, stock >>)
    /\ ret = None
    /\ subject = "signal"
    /\ origin = "synth"
    /\ trade = signalToTradeResult(sig, TrackedSymbol)
    /\ store = None
    /\ stockData = << ToDisplay(trade) >>
    /\ accuracy = 0
    /\ accuracyDue = FALSE
    /\ ld = [ pc |-> "done", i |-> 1, made |-> None, snapshot |-> << >>, out |-> << >> ]
    /\ rp = IdleRefresh(0)
    /\ cb = [ k \in 1..MaxCallbacks |-> IdleCallback ]
    /\ feeds = 0
    /\ ProviderInit

\* the next price of the feed arrives
LivePrice ==
    /\ call.op = "startLiveFeed"
    /\ feeds < Len(call.args[1])
    /\ LET currentPrice == call.args[1][feeds + 1]
       IN  /\ sig' = updateHitStatus(sig, currentPrice, clock)
           /\ stockData' = FeedDisplay(stockData, TrackedSymbol, currentPrice, clock)
    /\ feeds' = feeds + 1
    /\ UNCHANGED << trade, subject, origin, call, ret, clock >>
    /\ UNCHANGED << store, accuracy, accuracyDue, ld, rp, cb >>
    /\ UNCHANGED providerVars

NextLive == LivePrice

SpecLive == InitLive /\ [][NextLive]_vars

\* ------------------------------------------------------------------------
\* The provider layer under a screen: the feed started by the mount effect of
\* HomeScreen, screens calling fetchStockData, providers answering with data
\* or with a failure, time passing, and the effect's cleanup calling stop().
\* Timers do not fire on the dot: a pass starts at any moment while the
\* interval is set.  One handler per socket and one pass are followed at a time.
\* ------------------------------------------------------------------------
PollMs == 30000
MaxPolls == 2

\* what a screen asks for
ScreenSymbols == { "btcusdt", "tcs" }

\* what a provider answers: a StockData, or null after a failure
ProviderData == { FetchedStock(c, c, c, c) : c \in { << 100, 101 >>, << 101, 100 >> } }
ProviderResults == { None } \cup { Some(d) : d \in ProviderData }

InitProvider ==
    /\ clock = 0
    /\ call = NoCall
    /\ ret = None
    /\ subject = "signal"
    /\ origin = "synth"
    /\ sig = EmitSignal("HOLD", HoldConfidence, HoldExplanation, 1000)
    /\ trade = signalToTradeResult(sig, TrackedSymbol)
    /\ HomeInit

ProviderStep ==
    /\ UNCHANGED << sig, trade, subject, origin, call, ret >>
    /\ UNCHANGED homeVars

\* PollMs pass
Elapse ==
    /\ clock < MaxPolls * PollMs
    /\ clock' = clock + PollMs
    /\ UNCHANGED providerVars
    /\ ProviderStep

\* a screen calls fetchStockData(symbol); the record of a call that has
\* resolved is given up for the new call
ScreenFetch(k, symbol) ==
    /\ ~Pending(fetches[k])
    /\ fetches' = [ fetches EXCEPT ![k] = BeginFetch(symbol, clock, cache) ]
    /\ UNCHANGED << cache, live, clock >>
    /\ ProviderStep

\* the provider a screen's call awaits answers
ScreenReply(k, result) ==
    /\ Pending(fetches[k])
    /\ LET f == ReplyFetch(fetches[k], result)
       IN  /\ fetches' = [ fetches EXCEPT ![k] = f ]
           /\ cache' = CacheAfter(f, cache, clock)
    /\ UNCHANGED << live, clock >>
    /\ ProviderStep

\* ws.onmessage with a numeric price: the handler calls fetchStockData(sym) and,
\* once it has the data, callback(sym, { ...base, current: price })
WsMessage ==
    /\ ~live.stopped
    /\ live.ws.pc = "idle"
    /\ LET f == BeginFetch(cryptoSymbols[1], clock, cache)
       IN  live' = [ live EXCEPT !.ws = IF f.pc = "done" THEN IdleFetch ELSE f ]
    /\ UNCHANGED << cache, fetches, clock >>
    /\ ProviderStep

\* the provider the handler awaits answers; the handler resumes and calls back
WsReply(result) ==
    /\ Pending(live.ws)
    /\ LET f == ReplyFetch(live.ws, result)
       IN  /\ cache' = CacheAfter(f, cache, clock)
           /\ live' = IF f.pc = "done"
                      THEN [ live EXCEPT !.ws = IdleFetch, !.late = @ \/ live.stopped ]
                      ELSE [ live EXCEPT !.ws = f ]
    /\ UNCHANGED << fetches, clock >>
    /\ ProviderStep

\* the interval fires: a pass over stockSymbols starts
PollFire ==
    /\ ~live.stopped
    /\ live.poll.i = 0
    /\ live' = [ live EXCEPT !.poll = PollFrom(1, clock, cache) ]
    /\ UNCHANGED << cache, fetches, clock >>
    /\ ProviderStep

\* the provider the pass awaits answers; the pass calls back and goes on
PollReply(result) ==
    /\ live.poll.i > 0
    /\ LET f == ReplyFetch(live.poll.fetch, result)
           c == CacheAfter(f, cache, clock)
       IN  /\ cache' = c
           /\ live' = IF f.pc = "done"
                      THEN [ live EXCEPT !.poll = PollFrom(live.poll.i + 1, clock, c),
                                         !.late = @ \/ live.stopped ]
                      ELSE [ live EXCEPT !.poll.fetch = f ]
    /\ UNCHANGED << fetches, clock >>
    /\ ProviderStep

\* stop(): every socket closed, the interval cleared
Stop ==
    /\ ~live.stopped
    /\ live' = [ live EXCEPT !.stopped = TRUE ]
    /\ UNCHANGED << cache, fetches, clock >>
    /\ ProviderStep

NextProvider ==
    \/ Elapse
    \/ \E k \in 1..MaxCalls, symbol \in ScreenSymbols : ScreenFetch(k, symbol)
    \/ \E k \in 1..MaxCalls, result \in ProviderResults : ScreenReply(k, result)
    \/ WsMessage
    \/ \E result \in ProviderResults : WsReply(result)
    \/ PollFire
    \/ \E result \in ProviderResults : PollReply(result)
    \/ Stop

SpecProvider == InitProvider /\ [][NextProvider]_vars

\* ------------------------------------------------------------------------
\* Properties of the tracker
\* ------------------------------------------------------------------------
Resolved(r) == TruthyBool(r.resolved)
Terminal(r) == r.hitStatus \in { TARGET_HIT, STOP_HIT }

\* the stop and first-target conditions of a direction, as the specification
\* words them
StopCond(dir, stoploss, price) ==
    \/ dir = "BUY" /\ price <= stoploss
    \/ dir = "SELL" /\ price >= stoploss

TargetCond(dir, target, price) ==
    \/ dir = "BUY" /\ price >= target
    \/ dir = "SELL" /\ price <= target

\* C1: a call of update, evaluateEndOfDay, updateLiveTrade or endOfDayEvaluate
\* on a record with resolved = true returns a record equal to its input in
\* every field.
C1_TerminalIdempotent ==
    [][ /\ (Resolved(sig) => sig' = sig)
        /\ (Resolved(trade) => trade' = trade) ]_vars

\* C2: in every record reachable from a synthesized signal by update and
\* evaluateEndOfDay calls, resolved = true holds exactly when the status is
\* TARGET_HIT or STOP_HIT.
C2_ResolvedIffTerminal ==
    (origin = "synth" /\ subject = "signal") => (Resolved(sig) <=> Terminal(sig))

\* C3: update on an unresolved signal yields STOP_HIT when the price meets the
\* stop condition, otherwise TARGET_HIT when it meets the first-target condition,
\* otherwise no transition; a price meeting both yields STOP_HIT.
C3_LiveRule ==
    [][ (call'.op = "updateHitStatus" /\ ~Resolved(sig) /\ clock' = clock) =>
          LET p == call'.args[1]
              stop == StopCond(sig.signal, sig.stoploss, p)
              target == TargetCond(sig.signal, sig.targets[1], p)
          IN  /\ stop => sig'.hitStatus = STOP_HIT
              /\ (~stop /\ target) => sig'.hitStatus = TARGET_HIT
              /\ (~stop /\ ~target) => (sig'.hitStatus = sig.hitStatus /\ ~Resolved(sig')) ]_vars

C3_Witness ==
    /\ call.op = "updateHitStatus" /\ ~call.wasResolved
    /\ sig.hitStatus = STOP_HIT
    /\ StopCond(sig.signal, sig.stoploss, call.args[1])
    /\ TargetCond(sig.signal, sig.targets[1], call.args[1])

\* C4: evaluateEndOfDay (and endOfDayEvaluate) on an unresolved BUY signal with
\* dayLow <= stoploss yields STOP_HIT even when dayHigh >= targets[0]; on an
\* unresolved SELL signal with dayHigh >= stoploss it yields STOP_HIT even when
\* dayLow <= targets[0]; the status is decided by dayHigh and dayLow alone,
\* whatever closePrice is.
EodVerdict(dir, stoploss, target, dayHigh, dayLow) ==
    IF dir = "BUY" /\ dayLow <= stoploss THEN STOP_HIT
    ELSE IF dir = "SELL" /\ dayHigh >= stoploss THEN STOP_HIT
    ELSE IF dir = "BUY" /\ dayHigh >= target THEN TARGET_HIT
    ELSE IF dir = "SELL" /\ dayLow <= target THEN TARGET_HIT
    ELSE ACTIVE

C4_EodStopFirst ==
    [][ /\ (call'.op = "evaluateEndOfDayResult" /\ ~Resolved(sig) /\ clock' = clock) =>
             sig'.hitStatus = EodVerdict(sig.signal, sig.stoploss, sig.targets[1],
                                         call'.args[1], call'.args[2])
        /\ (call'.op = "endOfDayEvaluate" /\ ~Resolved(trade) /\ clock' = clock) =>
             trade'.hitStatus = EodVerdict(trade.signal, trade.stoploss, trade.targets[1],
                                           call'.args[1], call'.args[2]) ]_vars

\* both levels breached within the day, and the close breaching neither
C4_Witness ==
    /\ call.op = "evaluateEndOfDayResult" /\ ~call.wasResolved
    /\ sig.signal = "BUY" /\ sig.hitStatus = STOP_HIT
    /\ call.args[2] <= sig.stoploss /\ call.args[1] >= sig.targets[1]
    /\ call.args[3] > sig.stoploss /\ call.args[3] < sig.targets[1]

\* C5 (as written): a live-update transition returns resolved = true, finalPrice =
\* the price of the call, resolvedAt set, and the explanation "Stoploss hit --
\* trade invalidated." for STOP_HIT, "Target reached -- take profits." for
\* TARGET_HIT (the dash of the text is written -- here).
C5_TransitionFieldsOriginal ==
    (call.op = "updateHitStatus" /\ ~call.wasResolved /\ sig.hitStatus # ACTIVE) =>
        /\ sig.resolved = Some(TRUE)
        /\ sig.finalPrice = Some(call.args[1])
        /\ sig.resolvedAt # None
        /\ sig.explanation = IF sig.hitStatus = STOP_HIT
                             THEN "Stoploss hit -- trade invalidated."
                             ELSE "Target reached -- take profits."

\* C5 (amended): a live-update transition returns resolved = true, finalPrice =
\* the price of the call, resolvedAt set to the time of the call, and the
\* explanation "Stoploss hit." for STOP_HIT, "Target 1 hit." for TARGET_HIT.
C5_TransitionFields ==
    (call.op = "updateHitStatus" /\ ~call.wasResolved /\ sig.hitStatus # ACTIVE) =>
        /\ sig.resolved = Some(TRUE)
        /\ sig.finalPrice = Some(call.args[1])
        /\ sig.resolvedAt # None /\ sig.resolvedAt[1].iso \in 0..clock
        /\ sig.explanation = IF sig.hitStatus = STOP_HIT
                             THEN "Stoploss hit."
                             ELSE "Target 1 hit."

C5_Witness ==
    /\ call.op = "updateHitStatus" /\ ~call.wasResolved
    /\ origin = "synth" /\ sig.signal = "SELL" /\ sig.hitStatus = TARGET_HIT
    /\ clock > 0 /\ sig.resolvedAt = Some(ToISOString(clock))

\* C6: when evaluateEndOfDay resolves an unresolved signal, finalPrice is the
\* closePrice of the call, whatever the outcome and the direction.
C6_EodFinalPrice ==
    /\ (call.op = "evaluateEndOfDayResult" /\ ~call.wasResolved) =>
          (Resolved(sig) /\ sig.finalPrice = Some(call.args[3]))
    /\ (call.op = "endOfDayEvaluate" /\ ~call.wasResolved) =>
          (Resolved(trade) /\ trade.finalPrice = Some(call.args[3]))

\* a target swept intraday, the close being neither extreme nor a level
C6_Witness ==
    /\ call.op = "evaluateEndOfDayResult" /\ ~call.wasResolved
    /\ sig.signal = "SELL" /\ sig.hitStatus = TARGET_HIT
    /\ call.args[3] \notin { call.args[1], call.args[2], sig.stoploss, sig.targets[1] }
    /\ sig.finalPrice = Some(call.args[3])

\* a price that meets neither the stop nor the first-target condition (every
\* price, when the direction is HOLD)
NoBreach(r, price) ==
    /\ ~StopCond(r.signal, r.stoploss, price)
    /\ ~TargetCond(r.signal, r.targets[1], price)

\* C7 (as written): on an unresolved record and a price that breaches neither
\* level, update returns its input unchanged, and so does updateLiveTrade, also
\* on a TradeRecord without explanation or resolved.
C7_NonTerminalTickOriginal ==
    [][ /\ (call'.op = "updateHitStatus" /\ ~Resolved(sig) /\ clock' = clock
              /\ NoBreach(sig, call'.args[1])) => sig' = sig
        /\ (call'.op = "updateLiveTrade" /\ ~Resolved(trade) /\ clock' = clock
              /\ NoBreach(trade, call'.args[1])) => trade' = trade ]_vars

\* C7 (amended): on an unresolved record and a price that breaches neither level,
\* update returns its input unchanged; updateLiveTrade returns its input with an
\* absent explanation replaced by "No explanation" and an absent resolved by
\* false, which is the input unchanged when both fields are present.
C7_NonTerminalTick ==
    [][ /\ (call'.op = "updateHitStatus" /\ ~Resolved(sig) /\ clock' = clock
              /\ NoBreach(sig, call'.args[1])) => sig' = sig
        /\ (call'.op = "updateLiveTrade" /\ ~Resolved(trade) /\ clock' = clock
              /\ NoBreach(trade, call'.args[1])) =>
             /\ trade' = [ trade EXCEPT
                             !.explanation = IF trade.explanation = None
                                             THEN Some("No explanation") ELSE @,
                             !.resolved = IF trade.resolved = None THEN Some(FALSE) ELSE @ ]
             /\ (trade.explanation # None /\ trade.resolved # None) => trade' = trade ]_vars

C7_Witness ==
    /\ call.op = "updateLiveTrade" /\ ~call.wasResolved
    /\ NoBreach(trade, call.args[1])
    /\ trade.explanation = Some("No explanation")
    /\ trade.resolved = Some(FALSE) /\ trade.hitStatus = ACTIVE

\* C8: across tracker calls direction, stoploss, targets, confidence, entryPrice,
\* symbol and structural tag never change, and status, resolved, resolvedAt,
\* finalPrice and explanation change only in a call whose input is unresolved.
C8_Frame ==
    [][ /\ sig'.signal = sig.signal /\ sig'.stoploss = sig.stoploss
        /\ sig'.targets = sig.targets /\ sig'.confidence = sig.confidence
        /\ sig'.entryPrice = sig.entryPrice
        /\ trade'.signal = trade.signal /\ trade'.stoploss = trade.stoploss
        /\ trade'.targets = trade.targets /\ trade'.confidence = trade.confidence
        /\ trade'.entry = trade.entry /\ trade'.symbol = trade.symbol
        /\ trade'.bos = trade.bos
        /\ Resolved(sig) =>
             /\ sig'.hitStatus = sig.hitStatus /\ sig'.resolved = sig.resolved
             /\ sig'.resolvedAt = sig.resolvedAt /\ sig'.finalPrice = sig.finalPrice
             /\ sig'.explanation = sig.explanation
        /\ Resolved(trade) =>
             /\ trade'.hitStatus = trade.hitStatus /\ trade'.resolved = trade.resolved
             /\ trade'.resolvedAt = trade.resolvedAt /\ trade'.finalPrice = trade.finalPrice
             /\ trade'.explanation = trade.explanation ]_vars

\* ------------------------------------------------------------------------
\* Properties of the persisted collection
\* ------------------------------------------------------------------------
\* the persisted record of a symbol, as an optional
Persisted(item, symbol) == Find(loadTradeHistory(item), symbol)

\* C9: once the persisted record of a symbol has status TARGET_HIT or STOP_HIT,
\* no step of a live-feed callback or of a price refresh changes its status or
\* any other field of it.
C9_PersistedTerminalImmutable ==
    [][ (ld' = ld) =>
          \A s \in SymbolSet :
             LET r == Persisted(store, s)
             IN  (r # None /\ Terminal(r[1])) => Persisted(store', s) = r ]_vars

\* C10: read-modify-write on the persisted collection is serialized: whenever
\* loadData, refreshPrices or a live-feed callback saves, the collection it
\* loaded is the collection as it stands, so that no record written by another
\* sequence since that load is overwritten.
C10_NoStaleSave ==
    [][ /\ (ld.pc = "save" /\ ld' # ld /\ store' # store) =>
              ld.snapshot = loadTradeHistory(store)
        /\ \A k \in 1..MaxCallbacks :
             (cb[k].pc = "save" /\ cb'[k] # cb[k] /\ store' # store) =>
                cb[k].snapshot = loadTradeHistory(store)
        /\ (rp.pc = "save" /\ rp' # rp /\ store' # store) =>
              rp.snapshot = loadTradeHistory(store) ]_vars

\* the records of a symbol in a collection
RecordsOf(trades, symbol) == SelectSeq(trades, LAMBDA t : t.symbol = symbol)

OnePerSymbol(item) ==
    \A s \in SymbolSet : Len(RecordsOf(loadTradeHistory(item), s)) <= 1

\* C11: in every state of the persisted collection, under every interleaving of
\* loadData, refreshPrices and the live-feed callbacks, no two records share a
\* symbol; and when loadData has processed a symbol, the one record of that
\* symbol is the record just synthesized, the prior one being gone.
C11_OnePerSymbol ==
    [][ /\ OnePerSymbol(store) /\ OnePerSymbol(store')
        /\ (ld.pc = "save" /\ ld' # ld) =>
              RecordsOf(loadTradeHistory(store'), Symbols[ld.i]) = << ld.made[1] >> ]_vars

\* loadData has processed TCS.NS, whose prior record was a SELL with status STOP:
\* the store holds the new BUY record of TCS.NS and nothing else of that symbol
C11_Witness ==
    /\ ld.pc = "load" /\ ld.i = 2
    /\ Persisted(saveTradeHistory(PriorHistory), "TCS.NS")[1].signal = "SELL"
    /\ RecordsOf(loadTradeHistory(store), "TCS.NS")
         = << signalToTradeResult(Synthesized("BUY"), "TCS.NS") >>

\* ------------------------------------------------------------------------
\* Properties of the accuracy
\* ------------------------------------------------------------------------
CountWhere(trades, status, resolved) ==
    Cardinality({ i \in 1..Len(trades) :
                    /\ TruthyBool(trades[i].resolved) = resolved
                    /\ status \in { "any", trades[i].hitStatus } })

\* C12: computeAccuracy(trades) is round(100 * (resolved trades with status
\* TARGET_HIT) / (resolved trades)) when some trade is resolved and 0 when none
\* is, e.g. 67 for two TARGET_HIT and one STOP_HIT resolved plus one unresolved
\* ACTIVE; it is an integer in 0..100.
C12_AccuracyFormula ==
    (call.op = "computeAccuracy" /\ ret # None) =>
        LET trades == call.args[1]
            hits == CountWhere(trades, TARGET_HIT, TRUE)
            all == CountWhere(trades, "any", TRUE)
        IN  /\ ret[1] \in 0..100
            /\ all = 0 => ret[1] = 0
            /\ all > 0 => ret[1] = (200 * hits + all) \div (2 * all)

\* C13: records with status ACTIVE count neither in the numerator nor in the
\* denominator: the accuracy of a collection is the accuracy of the collection
\* without its ACTIVE records.
C13_ActiveExcluded ==
    (call.op = "computeAccuracy" /\ ret # None) =>
        ret[1] = computeAccuracy(SelectSeq(call.args[1], LAMBDA t : t.hitStatus # ACTIVE))

\* ------------------------------------------------------------------------
\* Properties of the synthesizer
\* ------------------------------------------------------------------------
\* generateSMCSignal has returned the signal sig for the StockData call.args[1]
Synthesized_(dirs) ==
    call.op = "generateSMCSignal" /\ ret # None /\ sig.signal \in dirs

\* C14: the confidence of every synthesized signal is in 50..99; it is 50 when
\* the direction is HOLD and at least 70 when it is BUY or SELL.
C14_ConfidenceRange ==
    Synthesized_(Directions) =>
        /\ sig.confidence \in 50..99
        /\ sig.signal = "HOLD" => sig.confidence = 50
        /\ sig.signal \in { "BUY", "SELL" } => sig.confidence >= 70

\* the weights of the detectors that confirm a direction, added up
ConfirmedWeight(v, verdict) ==
    (IF v.bos = verdict THEN 10 ELSE 0) + (IF v.choch = verdict THEN 10 ELSE 0)
      + (IF v.orderBlock = verdict THEN 5 ELSE 0) + (IF v.mitigation = verdict THEN 5 ELSE 0)
      + (IF v.breaker = verdict THEN 5 ELSE 0) + (IF v.hasFVG THEN 3 ELSE 0)
      + (IF v.volumeSurge THEN 3 ELSE 0) + (IF v.liquiditySweep = verdict THEN 4 ELSE 0)

\* a BUY whose bonuses add up to more than 29: the cap acts
C14_Witness ==
    /\ Synthesized_({ "BUY" })
    /\ ConfirmedWeight(Detect(call.args[1]), BULLISH) > 29
    /\ sig.confidence = 99

\* C15: the confidence of a BUY (SELL) signal is min(99, 70 + the weights of the
\* detectors whose verdict is BULLISH (BEARISH), the two boolean detectors
\* counting when true): BOS 10, CHoCH 10, Order Block 5, Mitigation Block 5,
\* Breaker Block 5, Fair Value Gap 3, Volume Surge 3, Liquidity Sweep 4.
C15_ConfidenceSum ==
    Synthesized_({ "BUY", "SELL" }) =>
        LET total == 70 + ConfirmedWeight(Detect(call.args[1]),
                                          IF sig.signal = "BUY" THEN BULLISH ELSE BEARISH)
        IN  sig.confidence = IF total < 99 THEN total ELSE 99

\* a BUY confirmed by the order block, with a breaker block of the opposite
\* direction that adds nothing, under the cap
C15_Witness ==
    /\ Synthesized_({ "BUY" })
    /\ Detect(call.args[1]).orderBlock = BULLISH
    /\ Detect(call.args[1]).breaker = BEARISH
    /\ Detect(call.args[1]).bos = NoVerdict
    /\ sig.confidence \in 75..98

\* the gates as the specification words them
GateOf(stock, dir) ==
    LET sma20 == calculateSMA(stock.prices, 20)
        ema50 == calculateEMA(stock.prices, 50)
        rsi == calculateRSI(stock.prices, 14)
        current == Whole(stock.current)
    IN  IF dir = "BUY"
        THEN /\ Less(sma20, current) /\ Less(ema50, current) /\ Less(rsi, Whole(70))
             /\ ChangeAbove(stock.current, stock.previousClose)
        ELSE /\ Less(current, sma20) /\ Less(current, ema50) /\ Less(Whole(30), rsi)
             /\ ChangeBelow(stock.current, stock.previousClose)

\* C16: the BUY gate and the SELL gate never hold together; the direction is BUY
\* exactly when the BUY gate holds, SELL exactly when the SELL gate holds, HOLD
\* otherwise, and what the BUY branch set is not overwritten by the SELL branch.
C16_GatesExclusive ==
    Synthesized_(Directions) =>
        LET buy == GateOf(call.args[1], "BUY")
            sell == GateOf(call.args[1], "SELL")
        IN  /\ ~(buy /\ sell)
            /\ sig.signal = "BUY" <=> buy
            /\ sig.signal = "SELL" <=> sell
            /\ sig.signal = "HOLD" <=> (~buy /\ ~sell)
            /\ buy => SubSeq(sig.explanation, 1, Len(BuyExplanation)) = BuyExplanation

\* the BUY gate held with an RSI between 30 and 70, which the SELL gate admits too
C16_Witness ==
    /\ Synthesized_({ "BUY" })
    /\ GateOf(call.args[1], "BUY")
    /\ Less(Whole(30), calculateRSI(call.args[1].prices, 14))

\* C17: for current > 0, a BUY has 3 targets, rising and all above current, at
\* 1.01, 1.02 and 1.03 times current, and stoploss 0.985 * current; a SELL has 3
\* targets, falling and all below current, at 0.99, 0.98 and 0.97 times current,
\* and stoploss 1.015 * current; a HOLD has the one target current and stoploss
\* current: the levels are functions of current and the direction alone.
C17_Levels ==
    (Synthesized_(Directions) /\ call.args[1].current > 0) =>
        LET current == call.args[1].current
            t == sig.targets
        IN  /\ sig.signal = "BUY" =>
                 /\ Len(t) = 3 /\ current < t[1] /\ t[1] < t[2] /\ t[2] < t[3]
                 /\ << 100 * t[1], 100 * t[2], 100 * t[3] >>
                      = << 101 * current, 102 * current, 103 * current >>
                 /\ 1000 * sig.stoploss = 985 * current
            /\ sig.signal = "SELL" =>
                 /\ Len(t) = 3 /\ current > t[1] /\ t[1] > t[2] /\ t[2] > t[3]
                 /\ << 100 * t[1], 100 * t[2], 100 * t[3] >>
                      = << 99 * current, 98 * current, 97 * current >>
                 /\ 1000 * sig.stoploss = 1015 * current
            /\ sig.signal = "HOLD" => (t = << current >> /\ sig.stoploss = current)

\* a SELL confirmed by every detector that can confirm it, its levels as above
C17_Witness ==
    /\ Synthesized_({ "SELL" })
    /\ sig.confidence = 99
    /\ sig.targets[3] < sig.targets[1] /\ sig.targets[1] < call.args[1].current
    /\ 1000 * sig.stoploss = 1015 * call.args[1].current

\* ------------------------------------------------------------------------
\* Properties of the indicators
\* ------------------------------------------------------------------------
\* the indicator op has returned ret[1] for the series call.args[1] and the
\* period call.args[2]
Returned(op) == call.op = op /\ ret # None

\* a number, as opposed to an exception or NaN
IsNumber(x) == x.den > 0

\* the statement as worded: below period samples SMA returns the last element
C18_FallbacksOriginal ==
    /\ (Returned("calculateSMA") /\ Len(call.args[1]) < call.args[2]) =>
          /\ call.args[1] # << >>
          /\ ret[1] = Whole(call.args[1][Len(call.args[1])])
    /\ (Returned("calculateRSI") /\ Len(call.args[1]) < call.args[2] + 1) =>
          ret[1] = Whole(50)

\* C18: for a series of fewer than period samples calculateSMA returns the
\* last element of the series, and 0 when the series is empty; for a series of
\* fewer than period + 1 samples calculateRSI returns exactly 50; both return a
\* number for every length of the series, the empty series included.
C18_Fallbacks ==
    /\ (Returned("calculateSMA") /\ Len(call.args[1]) < call.args[2]) =>
          ret[1] = IF call.args[1] = << >> THEN Whole(0)
                   ELSE Whole(call.args[1][Len(call.args[1])])
    /\ (Returned("calculateRSI") /\ Len(call.args[1]) < call.args[2] + 1) =>
          ret[1] = Whole(50)
    /\ (Returned("calculateSMA") \/ Returned("calculateRSI")) => IsNumber(ret[1])

\* calculateSMA has returned for the empty series
C18_Witness ==
    /\ Returned("calculateSMA")
    /\ call.args[1] = << >>
    /\ ret[1] = Whole(0)

\* ------------------------------------------------------------------------
\* Properties of the detectors
\* ------------------------------------------------------------------------
DetectorNames ==
    { "detectFairValueGap", "detectOrderBlock", "detectVolumeSurge", "detectLiquiditySweep",
      "detectBOS", "detectCHoCH", "detectMitigationBlock", "detectBreakerBlock" }

\* the minimum window length and the no-signal value of each detector
MinimumLength ==
    [ detectFairValueGap |-> 3, detectOrderBlock |-> 5, detectVolumeSurge |-> 10,
      detectLiquiditySweep |-> 5, detectBOS |-> 6, detectCHoCH |-> 8,
      detectMitigationBlock |-> 6, detectBreakerBlock |-> 10 ]

IsNoSignal(op, value) ==
    IF op \in { "detectFairValueGap", "detectVolumeSurge" } THEN value = FALSE
    ELSE value = NoVerdict

\* the arrays of the call in flight (a sweep's third argument is a price)
ArraysOf(c) ==
    IF c.op \in { "detectFairValueGap", "detectLiquiditySweep", "detectBOS", "detectCHoCH" }
    THEN << c.args[1], c.args[2] >>
    ELSE << c.args[1] >>

ShortWindow(c) ==
    \E i \in 1..Len(ArraysOf(c)) : Len(ArraysOf(c)[i]) < MinimumLength[c.op]

\* C19: a detector given a window shorter than its minimum length (Fair Value
\* Gap 3, Order Block 5, Volume Surge 10, Liquidity Sweep 5, BOS 6, CHoCH 8,
\* Mitigation Block 6, Breaker Block 10) returns its no-signal value (false or
\* null), and given windows of at least that length every element it reads is
\* inside the array it reads it from.
C19_WindowsAndReads ==
    (call.op \in DetectorNames /\ ret # None) =>
        IF ShortWindow(call) THEN IsNoSignal(call.op, ret[1].value)
        ELSE \A i \in 1..Len(ret[1].reads) : ret[1].reads[i] # None

\* C20: for a volume window of at least 10 elements, detectVolumeSurge returns
\* false when the latest volume is exactly 1.5 times the average of the last
\* ten, and returns true only when it is strictly greater.
C20_StrictSurge ==
    (Returned("detectVolumeSurge") /\ Len(call.args[1]) >= 10) =>
        LET volumes == call.args[1]
            latest == volumes[Len(volumes)]
            total == SumOf(SubSeq(volumes, Len(volumes) - 9, Len(volumes)))
        IN  /\ 20 * latest = 3 * total => ret[1].value = FALSE
            /\ ret[1].value = TRUE => 20 * latest > 3 * total

\* the latest volume, 27, is exactly 1.5 times the average, 18, and the
\* detector has returned false
C20_Witness ==
    /\ Returned("detectVolumeSurge")
    /\ Len(call.args[1]) >= 10
    /\ 20 * call.args[1][Len(call.args[1])]
         = 3 * SumOf(SubSeq(call.args[1], Len(call.args[1]) - 9, Len(call.args[1])))
    /\ ret[1].value = FALSE

\* C21: detectVolumeSurge returns true exactly when the latest volume is
\* greater than 1.5 times the mean of the 10 volumes before it, the latest
\* volume not being part of that mean.
C21_PrecedingMean ==
    (Returned("detectVolumeSurge") /\ Len(call.args[1]) >= 11) =>
        LET volumes == call.args[1]
            latest == volumes[Len(volumes)]
            preceding == SumOf(SubSeq(volumes, Len(volumes) - 10, Len(volumes) - 1))
        IN  ret[1].value <=> (20 * latest > 3 * preceding)

\* C22: with recentHigh and recentLow the maximum of highs and the minimum of
\* lows over the window without the latest two bars, detectLiquiditySweep
\* returns BEARISH when current is above recentHigh and below the
\* second-to-last high, and BULLISH when current is below recentLow and above
\* the second-to-last low.
C22_SweepVerdicts ==
    (Returned("detectLiquiditySweep") /\ Len(call.args[1]) >= 5 /\ Len(call.args[2]) >= 5) =>
        LET highs == call.args[1]
            lows == call.args[2]
            current == call.args[3]
            recentHigh == MaxOf(Slice(highs, -6, -2))
            recentLow == MinOf(Slice(lows, -6, -2))
            bearish == current > recentHigh /\ current < highs[Len(highs) - 1]
            bullish == current < recentLow /\ current > lows[Len(lows) - 1]
        IN  /\ bearish => ret[1].value = BEARISH
            /\ (bullish /\ ~bearish) => ret[1].value = BULLISH

\* C23: detectCHoCH returns BULLISH only when the last high is above 1.001
\* times the high two bars before it and the last low is not below 0.999 times
\* the low two bars before it, BEARISH only when the low is broken and the high
\* is not, and null when both or neither are; detectBOS returns BULLISH
\* whenever the last high is above 1.002 times the high two bars before it,
\* also when the last low is below 0.998 times the low two bars before it.
C23_ChochExclusive ==
    /\ (Returned("detectCHoCH") /\ Len(call.args[1]) >= 8 /\ Len(call.args[2]) >= 8) =>
          LET highs == call.args[1]
              lows == call.args[2]
              brokeHigh == 1000 * highs[Len(highs)] > 1001 * highs[Len(highs) - 2]
              brokeLow == 1000 * lows[Len(lows)] < 999 * lows[Len(lows) - 2]
          IN  /\ ret[1].value = BULLISH <=> (brokeHigh /\ ~brokeLow)
              /\ ret[1].value = BEARISH <=> (brokeLow /\ ~brokeHigh)
              /\ ret[1].value = NoVerdict <=> (brokeHigh <=> brokeLow)
    /\ (Returned("detectBOS") /\ Len(call.args[1]) >= 6 /\ Len(call.args[2]) >= 6) =>
          LET highs == call.args[1]
          IN  1000 * highs[Len(highs)] > 1002 * highs[Len(highs) - 2]
                => ret[1].value = BULLISH

\* detectCHoCH has returned null for a higher high together with a lower low
C23_Witness ==
    /\ Returned("detectCHoCH")
    /\ Len(call.args[1]) >= 8 /\ Len(call.args[2]) >= 8
    /\ 1000 * call.args[1][Len(call.args[1])] > 1001 * call.args[1][Len(call.args[1]) - 2]
    /\ 1000 * call.args[2][Len(call.args[2])] < 999 * call.args[2][Len(call.args[2]) - 2]
    /\ ret[1].value = NoVerdict

\* ------------------------------------------------------------------------
\* Properties of the provider layer
\* ------------------------------------------------------------------------
ValidSample(n) == n.finite /\ n.value > 0

\* the indices of the valid samples of arr before index i
ValidBefore(arr, i) == { j \in 1..(i - 1) : ValidSample(arr[j]) }

\* C24: sanitizeArray and sanitize return an array as long as their input, all
\* of whose elements are finite and strictly positive: a valid sample is kept,
\* a non-positive or non-finite one is replaced by the most recent valid sample
\* before it, or by 1 when there is none.
C24_Sanitized ==
    (Returned("sanitizeArray") \/ Returned("sanitize")) =>
        LET arr == call.args[1]
            out == ret[1]
        IN  /\ Len(out) = Len(arr)
            /\ \A i \in 1..Len(arr) :
                  /\ ValidSample(out[i])
                  /\ out[i] = IF ValidSample(arr[i]) THEN arr[i]
                              ELSE IF ValidBefore(arr, i) = { } THEN Number(1)
                              ELSE arr[CHOOSE j \in ValidBefore(arr, i) :
                                          \A k \in ValidBefore(arr, i) : k <= j]

\* sanitizeArray has filled a leading NaN with 1 and a zero after a 2, which it
\* kept, with 2
C24_Witness ==
    /\ Returned("sanitizeArray")
    /\ call.args[1] = << NaN, Number(2), Number(0) >>
    /\ ret[1] = << Number(1), Number(2), Number(2) >>

\* ------------------------------------------------------------------------
\* Properties of a synthesized signal under the live feed
\* ------------------------------------------------------------------------
\* the feed has delivered the first feeds prices of call.args[1] to the signal
\* synthesized from call.args[2]
UnderFeed == call.op = "startLiveFeed"

Breaches(r, price) ==
    StopCond(r.signal, r.stoploss, price) \/ TargetCond(r.signal, r.targets[1], price)

\* the positions, among the prices delivered, of those that breach a level of r
BreachesSoFar(r) == { i \in 1..feeds : Breaches(r, call.args[1][i]) }

FirstBreach(r) == CHOOSE i \in BreachesSoFar(r) : \A j \in BreachesSoFar(r) : i <= j

\* status, finalPrice and explanation of r are those the price decides
DecidedBy(r, price, shown) ==
    /\ r.hitStatus = IF StopCond(shown.signal, shown.stoploss, price) THEN STOP_HIT ELSE TARGET_HIT
    /\ r.finalPrice = Some(price)
    /\ Resolved(r)

\* C25: after any prefix of a sequence of live prices fed one at a time to a
\* synthesized BUY or SELL signal, status and finalPrice are those decided by
\* the first price of the prefix that breaches the stop or the first target,
\* and the status is ACTIVE, with finalPrice and explanation untouched, when
\* none does; so no later price changes status, finalPrice or explanation.
\* The same holds of the record HomeScreen displays.
C25_FirstBreachDecides ==
    (UnderFeed /\ trade.signal \in { "BUY", "SELL" }) =>
        LET shown == stockData[1]
        IN  IF BreachesSoFar(sig) = { }
            THEN /\ sig.hitStatus = ACTIVE /\ ~Resolved(sig)
                 /\ sig.finalPrice = None /\ sig.explanation = trade.explanation[1]
                 /\ shown.hitStatus = ACTIVE /\ ~Resolved(shown)
                 /\ shown.finalPrice = None /\ shown.explanation = trade.explanation
            ELSE LET first == call.args[1][FirstBreach(sig)]
                     text == IF StopCond(sig.signal, sig.stoploss, first)
                             THEN StopExplanation ELSE TargetExplanation
                 IN  /\ DecidedBy(sig, first, sig) /\ sig.explanation = text
                     /\ DecidedBy(shown, first, sig) /\ shown.explanation = Some(text)

\* the stop was hit first and a later price went past the first target
C25_Witness ==
    /\ UnderFeed /\ feeds >= 2
    /\ StopCond(sig.signal, sig.stoploss, call.args[1][1])
    /\ TargetCond(sig.signal, sig.targets[1], call.args[1][feeds])
    /\ sig.hitStatus = STOP_HIT /\ sig.finalPrice = Some(call.args[1][1])
    /\ stockData[1].hitStatus = STOP_HIT

\* C26: for a BUY or SELL signal synthesized from current > 0 the levels lie on
\* both sides of the entry price (BUY: stoploss < entryPrice < targets[0]; SELL:
\* targets[0] < entryPrice < stoploss), so no price meets both the stop and the
\* first-target condition, the entry price meets neither, and update called
\* with the entry price leaves the signal ACTIVE.
C26_LevelsApart ==
    (UnderFeed /\ sig.signal \in { "BUY", "SELL" } /\ call.args[2].current > 0) =>
        LET entry == sig.entryPrice[1]
        IN  /\ sig.signal = "BUY" => (sig.stoploss < entry /\ entry < sig.targets[1])
            /\ sig.signal = "SELL" => (sig.targets[1] < entry /\ entry < sig.stoploss)
            /\ \A p \in LivePricesOf(call.args[2]) :
                  ~(StopCond(sig.signal, sig.stoploss, p)
                      /\ TargetCond(sig.signal, sig.targets[1], p))
            /\ ~Breaches(sig, entry)
            /\ (\A i \in 1..feeds : call.args[1][i] = entry) =>
                  (sig.hitStatus = ACTIVE /\ ~Resolved(sig))

\* update has been called with the entry price and the BUY signal is ACTIVE
C26_Witness ==
    /\ UnderFeed /\ feeds >= 1
    /\ sig.signal = "BUY"
    /\ \A i \in 1..feeds : call.args[1][i] = sig.entryPrice[1]
    /\ sig.hitStatus = ACTIVE /\ ~Resolved(sig)

\* C30: the fallback StockData (current = previousClose = 1, every series 100
\* ones) is synthesized as HOLD with confidence 50, stoploss 1 and targets [1],
\* and that signal stays ACTIVE and unresolved under every sequence of live
\* updates.
C30_FallbackHolds ==
    (UnderFeed /\ call.args[2] = emptyStock) =>
        /\ sig.signal = "HOLD" /\ sig.confidence = 50
        /\ sig.stoploss = 1 /\ sig.targets = << 1 >>
        /\ sig.hitStatus = ACTIVE /\ ~Resolved(sig)
        /\ stockData[1].hitStatus = ACTIVE /\ ~Resolved(stockData[1])

\* the fallback signal after prices at, above and below its only level
C30_Witness ==
    /\ UnderFeed /\ call.args[2] = emptyStock
    /\ feeds = 3
    /\ call.args[1] = << 1, 2, 0 >>
    /\ sig.hitStatus = ACTIVE

\* C27: for a signal synthesized from current > 0, signalToTradeResult sets the
\* structural tag to CHoCH when the direction is BUY or SELL and to null when
\* it is HOLD; it never sets BOS, the entry price of a synthesized signal not
\* lying beyond its first target.
C27_StructuralTag ==
    (Synthesized_(Directions) /\ call.args[1].current > 0) =>
        /\ trade.bos = IF sig.signal \in { "BUY", "SELL" } THEN "CHoCH" ELSE "null"
        /\ trade.bos # "BOS"
        /\ sig.signal = "BUY" => ~(sig.entryPrice[1] > sig.targets[1])
        /\ sig.signal = "SELL" => ~(sig.entryPrice[1] < sig.targets[1])

\* a synthesized SELL converted with the tag CHoCH
C27_Witness ==
    /\ Synthesized_({ "SELL" })
    /\ trade.signal = "SELL" /\ trade.entry = Some(call.args[1].current)
    /\ trade.bos = "CHoCH"

\* ------------------------------------------------------------------------
\* Properties of the live feed and the cache
\* ------------------------------------------------------------------------
\* C28: after stop() has returned, callback is never invoked again, whatever
\* handler or polling pass was in flight when it was called.
C28_NoCallbackAfterStop == ~live.late

\* the normalized key of the symbols the screens ask for
KeyOf == [ btcusdt |-> "BTC/USD", tcs |-> "TCS.NS" ]

\* C29: a call of fetchStockData for a symbol whose cache entry, under the
\* normalized key, is younger than 60 s resolves with exactly the cached
\* StockData, issues no provider request and leaves the cache alone; a call
\* that finds no entry, or one at least 60 s old, asks the providers, and when
\* it resolves the entry is replaced by its result and the time, also when the
\* result is the all-ones fallback.
C29_CacheTTL ==
    [][ \A k \in 1..MaxCalls :
          LET f == fetches[k]
              g == fetches'[k]
          IN  /\ (~Pending(f) /\ g # f) =>
                   LET entry == cache[KeyOf[g.symbol]]
                   IN  /\ g.key = KeyOf[g.symbol]
                       /\ IF entry # None /\ clock - entry[1].ts < 60000
                          THEN /\ g.pc = "done" /\ g.data = Some(entry[1].data)
                               /\ g.requests = 0 /\ cache' = cache
                          ELSE /\ Pending(g) /\ g.requests = 1 /\ g.data = None
              /\ (Pending(f) /\ g.pc = "done") =>
                   /\ g.requests >= 1
                   /\ cache'[g.key] = Some([ data |-> g.data[1], ts |-> clock ])
      ]_vars

\* a call has resolved from the cache, without a request, with the fallback
\* that an earlier failure of every provider left there
C29_Witness ==
    /\ fetches[1].pc = "done" /\ fetches[1].requests = 0
    /\ fetches[1].symbol = "tcs"
    /\ fetches[1].data = Some(emptyStock)
    /\ cache["TCS.NS"] # None
    /\ cache["TCS.NS"][1].data = emptyStock
    /\ clock - cache["TCS.NS"][1].ts < 60000

====
